---- MODULE Spec2Model ----
(***************************************************************************)
(* CAN-SLIM US Stock Hunter: the technical filter chain                    *)
(* (modules/screener.py, TechnicalFilter), the fundamental checks          *)
(* (FundamentalFilter), the exit calculator (ExitStrategyCalculator) with  *)
(* models.ExitStrategy, the fundamental and notification loops of main.py, *)
(* its helpers fetch_with_retry and safe_process_ticker, the ticker list   *)
(* of DataLoader.load_ticker_list and SlackNotifier.post_stock_alert.      *)
(*                                                                         *)
(* A price DataFrame with MultiIndex (ticker, Date) is a sequence of       *)
(* blocks, one per ticker, in the order main() concatenates them           *)
(* (main.py:244-253): [ticker, Close, Volume] with Close and Volume the    *)
(* ticker's columns in date order.  Tickers are numbered; the number order *)
(* stands for the string order pandas sorts group keys by.  Closes and     *)
(* volumes are integers, the fractional thresholds of config.py are kept   *)
(* as integer percentages, and every quotient the code computes is kept as *)
(* an exact fraction <<numerator, denominator>>.                           *)
(***************************************************************************)
EXTENDS Integers, Sequences, FiniteSets

VARIABLES data, spy_data, financial_data, args, called, ret

\* main(): the step it is at, its locals, and the calls it has made of the
\* loader, the fundamental filter, ExitStrategy and the notifier
VARIABLES pc, candidates, qualified_stocks, processed_count, skipped_count,
          notification_success_count, notification_failed_count, log

\* main(): the locals a pass of the notification loop holds while it waits
\* for the chart, the company info, the news and the notifier
VARIABLES exit_strategy, chart_path, company_info, news_items

\* fetch_with_retry(): the index of the loop over range(max_retries)
VARIABLES attempt

pass_locals == <<exit_strategy, chart_path, company_info, news_items>>

main_vars ==
    <<pc, candidates, qualified_stocks, processed_count, skipped_count,
      notification_success_count, notification_failed_count, log,
      pass_locals>>

vars ==
    <<data, spy_data, financial_data, args, called, ret, main_vars, attempt>>

(***************************************************************************)
(* config.py                                                               *)
(***************************************************************************)
MIN_PRICE == 10
MIN_VOL_AVG == 200000
NEAR_HIGH_PCT == 85
MA_200_PERIOD == 200
EPS_GROWTH_THRESHOLD == 20
REV_GROWTH_THRESHOLD == 20
ROE_THRESHOLD == 15
PROFIT_TARGET_PCT == 20
STOP_LOSS_PCT == 7
MA_STOP_LOSS_PCT == 3
MA_10_PERIOD == 10
\* seconds
API_CALL_DELAY == 1
MA_50_PERIOD == 50
\* the literal windows of tail(50) and tail(252)
VOLUME_WINDOW == 50
HIGH_WINDOW == 252

(***************************************************************************)
(* Bounds of the model                                                     *)
(***************************************************************************)
MaxTickers == 2
MaxQuarters == 5

(***************************************************************************)
(* Exact fractions, floats' NaN, and the pandas Series operations used.    *)
(* Closes and volumes are integers.  Each quantity the technical filters   *)
(* compare is one quotient or one product of integers, which the float     *)
(* operation rounds once: two such quantities compare in floats as their   *)
(* exact values do, so the filters are computed on exact fractions.  Where *)
(* a float is rounded more than once or is printed (the growth rates, the  *)
(* exit prices, the relative strength rating) the model computes the       *)
(* float itself, see "Python floats" below.                                *)
(***************************************************************************)
NaN == <<0, 0>>

Frac(n, d) == <<n, d>>

notna(x) == x[2] # 0

\* x >= y on fractions with positive denominators; False when either is NaN
FracGE(x, y) == notna(x) /\ notna(y) /\ x[1] * y[2] >= y[1] * x[2]

\* x > y on fractions with positive denominators; False when either is NaN
FracGT(x, y) == notna(x) /\ notna(y) /\ x[1] * y[2] > y[1] * x[2]

FracEq(x, y) == notna(x) /\ notna(y) /\ x[1] * y[2] = y[1] * x[2]

Int2Frac(n) == <<n, 1>>

\* n * p for a percentage p (85 stands for 0.85)
FracTimesPct(n, p) == <<n * p, 100>>

RECURSIVE SumRange(_, _, _)
\* s[lo] + ... + s[hi], by halves
SumRange(s, lo, hi) ==
    IF lo > hi THEN 0
    ELSE IF lo = hi THEN s[lo]
    ELSE LET mid == (lo + hi) \div 2
         IN SumRange(s, lo, mid) + SumRange(s, mid + 1, hi)

\* Series.tail(n): the last n values, all of them when there are fewer
tail(s, n) == IF Len(s) <= n THEN s ELSE SubSeq(s, Len(s) - n + 1, Len(s))

\* Series.mean()
mean(s) == IF Len(s) = 0 THEN NaN ELSE Frac(SumRange(s, 1, Len(s)), Len(s))

\* Series.max() (of a non-empty Series)
max(s) == CHOOSE m \in {s[i] : i \in 1..Len(s)} : \A j \in 1..Len(s) : s[j] <= m

\* Series.iloc[-1]
iloc_last(s) == s[Len(s)]

\* Series.iloc[0]
iloc_first(s) == s[1]

\* mutant of rolling_mean_last: min_periods=1, a short window is averaged
rolling_mean_last_short(s, w) == mean(tail(s, w))

\* Series.rolling(window=w).mean().iloc[-1]: min_periods defaults to the
\* window, so the value is NaN until w observations exist
rolling_mean_last(s, w) == IF Len(s) < w THEN NaN ELSE mean(tail(s, w))

(***************************************************************************)
(* DataFrames                                                              *)
(***************************************************************************)
\* the set of elements of a sequence
Range1(s) == {s[i] : i \in 1..Len(s)}

\* pd.DataFrame()
EmptyFrame == <<>>

\* DataFrame.empty
empty(df) == Len(df) = 0

\* data.index.get_level_values(0).unique(): tickers in order of appearance
unique_tickers(df) == [i \in 1..Len(df) |-> df[i].ticker]

\* data.loc[ticker]: the rows of one ticker
loc_ticker(df, t) == df[CHOOSE i \in 1..Len(df) : df[i].ticker = t]

\* data.loc[valid_tickers]: the rows of the listed tickers, in list order
loc_list(df, tickers) == [i \in 1..Len(tickers) |-> loc_ticker(df, tickers[i])]

RECURSIVE SortAsc(_)
\* the elements of a set of numbers as an ascending sequence
SortAsc(S) ==
    IF S = {} THEN <<>>
    ELSE LET m == CHOOSE x \in S : \A y \in S : x <= y
         IN <<m>> \o SortAsc(S \ {m})

\* a sequence backwards
Reverse(s) == [i \in 1..Len(s) |-> s[Len(s) + 1 - i]]

\* mutant of groupby_keys: sort=False, group keys in order of appearance
groupby_keys_unsorted(df) == [i \in 1..Len(df) |-> df[i].ticker]

\* the index of data.groupby(level=0)[...].last(): group keys are sorted
groupby_keys(df) == SortAsc({df[i].ticker : i \in 1..Len(df)})

(***************************************************************************)
(* TechnicalFilter                                                         *)
(***************************************************************************)
\* mutant of price_ok: a close equal to MIN_PRICE is dropped
price_ok_strict(ticker_data, min_price) ==
    iloc_last(ticker_data.Close) > min_price

\* mutant of price_ok: the comparison is turned around
price_ok_below(ticker_data, min_price) ==
    iloc_last(ticker_data.Close) <= min_price

\* latest_prices >= self.config.MIN_PRICE, for one group
price_ok(ticker_data, min_price) == iloc_last(ticker_data.Close) >= min_price

\* apply_price_filter of a filter whose config has MIN_PRICE = min_price
apply_price_filter_with(df, min_price) ==
    IF empty(df) THEN df
    ELSE LET valid_tickers ==
                 SelectSeq(groupby_keys(df),
                           LAMBDA t : price_ok(loc_ticker(df, t), min_price))
         IN IF valid_tickers # <<>> THEN loc_list(df, valid_tickers)
            ELSE EmptyFrame

\* with the MIN_PRICE of config.py
apply_price_filter(df) == apply_price_filter_with(df, MIN_PRICE)

\* mutant of avg_volume_50d: the mean of the whole series
avg_volume_all(ticker_data) == mean(ticker_data.Volume)

avg_volume_50d(ticker_data) == mean(tail(ticker_data.Volume, VOLUME_WINDOW))

volume_ok(ticker_data) ==
    FracGE(avg_volume_50d(ticker_data), Int2Frac(MIN_VOL_AVG))

apply_volume_filter(df) ==
    IF empty(df) THEN df
    ELSE LET valid_tickers ==
                 SelectSeq(unique_tickers(df),
                           LAMBDA t : volume_ok(loc_ticker(df, t)))
         IN IF valid_tickers # <<>> THEN loc_list(df, valid_tickers)
            ELSE EmptyFrame

latest_sma_200(ticker_data) ==
    rolling_mean_last(ticker_data.Close, MA_200_PERIOD)

trend_ok(ticker_data) ==
    LET latest_price == iloc_last(ticker_data.Close)
    IN  /\ notna(latest_sma_200(ticker_data))
        /\ FracGE(Int2Frac(latest_price), latest_sma_200(ticker_data))

apply_trend_filter(df) ==
    IF empty(df) THEN df
    ELSE LET valid_tickers ==
                 SelectSeq(unique_tickers(df),
                           LAMBDA t : trend_ok(loc_ticker(df, t)))
         IN IF valid_tickers # <<>> THEN loc_list(df, valid_tickers)
            ELSE EmptyFrame

\* mutant of high_52w: the high of the whole series
high_all(ticker_data) == max(ticker_data.Close)

high_52w(ticker_data) == max(tail(ticker_data.Close, HIGH_WINDOW))

near_high_ok(ticker_data) ==
    LET latest_price == iloc_last(ticker_data.Close)
    IN  FracGE(Int2Frac(latest_price),
               FracTimesPct(high_52w(ticker_data), NEAR_HIGH_PCT))

apply_near_high_filter(df) ==
    IF empty(df) THEN df
    ELSE LET valid_tickers ==
                 SelectSeq(unique_tickers(df),
                           LAMBDA t : near_high_ok(loc_ticker(df, t)))
         IN IF valid_tickers # <<>> THEN loc_list(df, valid_tickers)
            ELSE EmptyFrame

\* (prices.iloc[-1] - prices.iloc[0]) / prices.iloc[0]
return_1y(prices) ==
    Frac(iloc_last(prices) - iloc_first(prices), iloc_first(prices))

\* mutant of rs_ok: a return equal to the benchmark's passes
rs_ok_or_equal(ticker_data, spy) ==
    FracGE(return_1y(ticker_data.Close), return_1y(spy))

rs_ok(ticker_data, spy) ==
    FracGT(return_1y(ticker_data.Close), return_1y(spy))

\* mutant of apply_rs_filter: without a benchmark nothing passes
apply_rs_filter_needs_benchmark(df, spy) ==
    IF empty(df) THEN df
    ELSE IF empty(spy) THEN EmptyFrame
    ELSE LET valid_tickers ==
                 SelectSeq(unique_tickers(df),
                           LAMBDA t : rs_ok(loc_ticker(df, t), spy))
         IN IF valid_tickers # <<>> THEN loc_list(df, valid_tickers)
            ELSE EmptyFrame

\* screener.py 191-233: TechnicalFilter.apply_rs_filter
apply_rs_filter(df, spy) ==
    IF empty(df) \/ empty(spy) THEN df
    ELSE LET valid_tickers ==
                 SelectSeq(unique_tickers(df),
                           LAMBDA t : rs_ok(loc_ticker(df, t), spy))
         IN IF valid_tickers # <<>> THEN loc_list(df, valid_tickers)
            ELSE EmptyFrame

\* mutant of filter_all: the trend stage is left out
filter_all_no_trend(df, spy) ==
    LET f1 == apply_price_filter(df)
        f2 == apply_volume_filter(f1)
        f4 == apply_near_high_filter(f2)
        f5 == apply_rs_filter(f4, spy)
    IN  IF empty(f1) \/ empty(f2) \/ empty(f4) \/ empty(f5) THEN <<>>
        ELSE unique_tickers(f5)

filter_all(df, spy) ==
    LET f1 == apply_price_filter(df)
        f2 == apply_volume_filter(f1)
        f3 == apply_trend_filter(f2)
        f4 == apply_near_high_filter(f3)
        f5 == apply_rs_filter(f4, spy)
    IN  IF empty(f1) THEN <<>>
        ELSE IF empty(f2) THEN <<>>
        ELSE IF empty(f3) THEN <<>>
        ELSE IF empty(f4) THEN <<>>
        ELSE IF empty(f5) THEN <<>>
        ELSE unique_tickers(f5)

(***************************************************************************)
(* Python values of a financial_data dict: None, a number, a list.  A dict *)
(* is a function whose domain is the set of its keys.  Amounts are         *)
(* integers (EPS in cents, ROE in percent), 20 stands for 0.20.            *)
(***************************************************************************)
None == [tag |-> "None"]

Num(n) == [tag |-> "num", v |-> n]

List(items) == [tag |-> "list", items |-> items]

\* a string
Str(s) == [tag |-> "str", v |-> s]

is_none(x) == x.tag = "None"

\* bool(x): None, 0 and the empty list are falsy
truthy(x) ==
    CASE x.tag = "None" -> FALSE
      [] x.tag = "num" -> x.v # 0
      [] x.tag = "list" -> Len(x.items) > 0
      [] x.tag = "str" -> x.v # ""

\* x != 0
ne_zero(x) == ~(x.tag = "num" /\ x.v = 0)

\* 0.0
Zero == Frac(0, 1)

\* a percentage p as a fraction (20 stands for 0.20)
Pct(p) == Frac(p, 100)

(***************************************************************************)
(* Python floats: IEEE 754 doubles, every operation rounded to the nearest *)
(* double, ties to even.  A natural number of any size is the sequence of  *)
(* its digits in base 2^15, lowest digit first and without leading zeros;  *)
(* a float is sign * man * 2^exp with man of exactly 53 bits, or zero (man *)
(* empty), or NaN (sign 0).  Infinities and subnormal numbers are out of   *)
(* reach of the amounts here.                                              *)
(***************************************************************************)
\* the digits of a big number are below 2^15, so that the product of two
\* of them stays an integer of the checker
LimbBits == 15
LimbBase == 2 ^ LimbBits

\* the binary digits of the mantissa of a double
MantissaBits == 53

RECURSIVE BigNorm(_)
BigNorm(a) ==
    IF a = <<>> THEN <<>>
    ELSE IF a[Len(a)] = 0 THEN BigNorm(SubSeq(a, 1, Len(a) - 1))
    ELSE a

RECURSIVE BigOfInt(_)
BigOfInt(n) ==
    IF n = 0 THEN <<>>
    ELSE <<n % LimbBase>> \o BigOfInt(n \div LimbBase)

RECURSIVE IntOfBig(_)
IntOfBig(a) ==
    IF a = <<>> THEN 0 ELSE a[1] + LimbBase * IntOfBig(Tail(a))

RECURSIVE BigAddC(_, _, _)
BigAddC(a, b, carry) ==
    IF a = <<>> /\ b = <<>> THEN (IF carry = 0 THEN <<>> ELSE <<carry>>)
    ELSE LET x == IF a = <<>> THEN 0 ELSE a[1]
             y == IF b = <<>> THEN 0 ELSE b[1]
             s == x + y + carry
         IN  <<s % LimbBase>>
                 \o BigAddC(IF a = <<>> THEN <<>> ELSE Tail(a),
                            IF b = <<>> THEN <<>> ELSE Tail(b),
                            s \div LimbBase)

BigAdd(a, b) == BigAddC(a, b, 0)

RECURSIVE BigSubB(_, _, _)
BigSubB(a, b, borrow) ==
    IF a = <<>> THEN <<>>
    ELSE LET y == IF b = <<>> THEN 0 ELSE b[1]
             s == a[1] - y - borrow
         IN  <<s % LimbBase>>
                 \o BigSubB(Tail(a), IF b = <<>> THEN <<>> ELSE Tail(b),
                            IF s < 0 THEN 1 ELSE 0)

\* a - b for a >= b
BigSub(a, b) == BigNorm(BigSubB(a, b, 0))

RECURSIVE BigCmpFrom(_, _, _)
BigCmpFrom(a, b, i) ==
    IF i = 0 THEN 0
    ELSE IF a[i] < b[i] THEN -1
    ELSE IF a[i] > b[i] THEN 1
    ELSE BigCmpFrom(a, b, i - 1)

\* -1, 0 or 1 as a < b, a = b or a > b
BigCmp(a, b) ==
    IF Len(a) < Len(b) THEN -1
    ELSE IF Len(a) > Len(b) THEN 1
    ELSE BigCmpFrom(a, b, Len(a))

RECURSIVE BigMulIntC(_, _, _)
BigMulIntC(a, k, carry) ==
    IF a = <<>> THEN BigOfInt(carry)
    ELSE LET p == a[1] * k + carry
         IN  <<p % LimbBase>> \o BigMulIntC(Tail(a), k, p \div LimbBase)

\* a * k for 0 <= k < 2^15
BigMulInt(a, k) == IF k = 0 THEN <<>> ELSE BigMulIntC(a, k, 0)

\* a * 2^(15 * n)
BigShiftLimbs(a, n) ==
    IF a = <<>> THEN <<>> ELSE [i \in 1..n |-> 0] \o a

RECURSIVE BigMul(_, _)
BigMul(a, b) ==
    IF a = <<>> THEN <<>>
    ELSE BigAdd(BigMulInt(b, a[1]), BigShiftLimbs(BigMul(Tail(a), b), 1))

\* a * 2^k
BigShl(a, k) ==
    BigShiftLimbs(BigMulInt(a, 2 ^ (k % LimbBits)), k \div LimbBits)

\* a \div 2^k
BigShr(a, k) ==
    LET n == k \div LimbBits
        s == k % LimbBits
        b == SubSeq(a, n + 1, Len(a))
    IN  BigNorm([i \in 1..Len(b) |->
            (b[i] \div 2 ^ s)
                + (IF i < Len(b) THEN (b[i + 1] % 2 ^ s) * 2 ^ (LimbBits - s)
                   ELSE 0)])

RECURSIVE IntBits(_)
IntBits(n) == IF n = 0 THEN 0 ELSE 1 + IntBits(n \div 2)

\* the number of binary digits of a
BitLen(a) ==
    IF a = <<>> THEN 0 ELSE LimbBits * (Len(a) - 1) + IntBits(a[Len(a)])

\* (n + t) / 2^k rounded to the nearest integer, ties to even, where
\* 0 < t < 1 if sticky and t = 0 if not
\* q or q + 1: c is -1, 0 or 1 as the part cut off is below, at or above
\* one half
RoundUp(q, c, sticky) ==
    IF c > 0 \/ (c = 0 /\ (sticky \/ (q # <<>> /\ q[1] % 2 = 1)))
    THEN BigAdd(q, <<1>>) ELSE q

RoundFrom(n, k, q, sticky) ==
    RoundUp(q, BigCmp(BigSub(n, BigShl(q, k)), BigShl(<<1>>, k - 1)), sticky)

RoundShift(n, k, sticky) ==
    IF k = 0 THEN n ELSE RoundFrom(n, k, BigShr(n, k), sticky)

Float(sign, man, exp) ==
    [tag |-> "float", sign |-> sign, man |-> man, exp |-> exp]

FloatNaN == [tag |-> "float", sign |-> 0, man |-> <<>>, exp |-> 0]

FloatZero(sign) == Float(sign, <<>>, 0)

isnan(x) == x.sign = 0

\* sign * (n + t) * 2^e as a double
\* a mantissa that rounding carried to 54 bits is halved
Carried(sign, m, e) ==
    IF BitLen(m) > MantissaBits
    THEN Float(sign, BigShr(m, 1), e + 1) ELSE Float(sign, m, e)

RoundBits(sign, n, e, sticky, bits) ==
    IF bits <= MantissaBits
    THEN Float(sign, BigShl(n, MantissaBits - bits),
               e - (MantissaBits - bits))
    ELSE Carried(sign, RoundShift(n, bits - MantissaBits, sticky),
                 e + (bits - MantissaBits))

RoundToNearest(sign, n, e, sticky) ==
    IF n = <<>> THEN FloatZero(sign)
    ELSE RoundBits(sign, n, e, sticky, BitLen(n))

\* the largest digit q with q * d <= r, tried downwards from a guess
RECURSIVE DigitDown(_, _, _)
DigitDown(r, d, q) ==
    IF BigCmp(BigMulInt(d, q), r) > 0 THEN DigitDown(r, d, q - 1) ELSE q

\* r \div d for r < d * 2^15 and a top digit of d of at least 2^14: the two
\* top digits of r over the top digit of d are the quotient or at most two
\* more
QuotientDigit(r, d) ==
    LET n == Len(d)
        top == (IF Len(r) > n THEN r[n + 1] ELSE 0) * LimbBase
                   + (IF Len(r) >= n THEN r[n] ELSE 0)
        guess == top \div d[n]
    IN  DigitDown(r, d, IF guess >= LimbBase THEN LimbBase - 1 ELSE guess)

\* long division: the digits n[1..i] are brought down, highest first, onto
\* the remainder r
RECURSIVE BigDivModFrom(_, _, _, _)
BigDivModFrom(n, d, i, r) ==
    IF i = 0 THEN [q |-> <<>>, r |-> r]
    ELSE LET r1 == BigNorm(<<n[i]>> \o r)
             digit == QuotientDigit(r1, d)
             rest == BigDivModFrom(n, d, i - 1,
                                   BigSub(r1, BigMulInt(d, digit)))
         IN  [q |-> rest.q \o <<digit>>, r |-> rest.r]

\* the quotient without leading zeros, the remainder scaled back
BigDivModBy(s, res) == [q |-> BigNorm(res.q), r |-> BigShr(res.r, s)]

BigDivModScaled(s, n1, d1) ==
    BigDivModBy(s, BigDivModFrom(n1, d1, Len(n1), <<>>))

\* n \div d and n % d for d > 0: both are scaled until the top digit of
\* d is at least 2^14
BigDivMod(n, d) ==
    BigDivModScaled(LimbBits - IntBits(d[Len(d)]),
                    BigShl(n, LimbBits - IntBits(d[Len(d)])),
                    BigShl(d, LimbBits - IntBits(d[Len(d)])))

\* sign * (q + t) * 2^e as a double, for a quotient q with a remainder
RoundQuotient(sign, res, e) ==
    RoundToNearest(sign, res.q, e, res.r # <<>>)

\* x / y for y # 0
fdiv(x, y) ==
    IF isnan(x) \/ isnan(y) THEN FloatNaN
    ELSE IF x.man = <<>> THEN FloatZero(x.sign * y.sign)
    ELSE RoundQuotient(x.sign * y.sign,
                       BigDivMod(BigShl(x.man, MantissaBits + 2), y.man),
                       x.exp - y.exp - (MantissaBits + 2))

\* digits of rem / d after the binary point, fifteen at a time, until the
\* quotient has two digits more than a mantissa or the division ends
RECURSIVE QuotientBits(_, _, _, _)
QuotientBits(q, rem, d, e) ==
    IF rem = 0 \/ BitLen(q) >= MantissaBits + 2
    THEN [q |-> q, e |-> e, sticky |-> rem # 0]
    ELSE LET t == rem * LimbBase
         IN  QuotientBits(BigAdd(BigShiftLimbs(q, 1), BigOfInt(t \div d)),
                          t % d, d, e - LimbBits)

RoundQuotientBits(sign, b) == RoundToNearest(sign, b.q, b.e, b.sticky)

\* the double nearest to the fraction n / d, for d below 2^16: what n / d
\* gives on two integers, and what the decimal literal of n / d is read as
float_of(x) ==
    IF x[2] = 0 THEN FloatNaN
    ELSE LET n == IF x[1] < 0 THEN -x[1] ELSE x[1]
             d == IF x[2] < 0 THEN -x[2] ELSE x[2]
             sign == IF (x[1] < 0) # (x[2] < 0) THEN -1 ELSE 1
         IN  RoundQuotientBits(sign, QuotientBits(BigOfInt(n \div d),
                                                  n % d, d, 0))

\* x * y
fmul(x, y) ==
    IF isnan(x) \/ isnan(y) THEN FloatNaN
    ELSE RoundToNearest(x.sign * y.sign, BigMul(x.man, y.man),
                        x.exp + y.exp, FALSE)

\* -x
fneg(x) == [x EXCEPT !.sign = -x.sign]

\* x + y
\* the exact sum of sx * a and sy * b as a sign and a magnitude; equal
\* magnitudes of opposite signs give +0.0
SignedSum(sx, a, sy, b) ==
    IF sx = sy THEN [sign |-> sx, n |-> BigAdd(a, b)]
    ELSE IF BigCmp(a, b) = 0 THEN [sign |-> 1, n |-> <<>>]
    ELSE IF BigCmp(a, b) > 0 THEN [sign |-> sx, n |-> BigSub(a, b)]
    ELSE [sign |-> sy, n |-> BigSub(b, a)]

RoundSum(sum, e) == RoundToNearest(sum.sign, sum.n, e, FALSE)

\* both mantissas are brought to the smaller exponent e and added
AddAt(x, y, e) ==
    RoundSum(SignedSum(x.sign, BigShl(x.man, x.exp - e),
                       y.sign, BigShl(y.man, y.exp - e)), e)

fadd(x, y) ==
    IF isnan(x) \/ isnan(y) THEN FloatNaN
    ELSE IF x.man = <<>> /\ y.man = <<>>
    THEN FloatZero(IF x.sign = -1 /\ y.sign = -1 THEN -1 ELSE 1)
    ELSE IF x.man = <<>> THEN y
    ELSE IF y.man = <<>> THEN x
    ELSE AddAt(x, y, IF x.exp < y.exp THEN x.exp ELSE y.exp)

\* x - y
fsub(x, y) == fadd(x, fneg(y))

\* |x|
fabs(x) == [x EXCEPT !.sign = IF x.sign = 0 THEN 0 ELSE 1]

\* -1, 0 or 1 as x < y, x = y or x > y, for numbers
fcmp(x, y) ==
    IF x.man = <<>> THEN (IF y.man = <<>> THEN 0 ELSE -y.sign)
    ELSE IF y.man = <<>> \/ x.sign # y.sign THEN x.sign
    ELSE IF x.exp # y.exp THEN (IF x.exp > y.exp THEN x.sign ELSE -x.sign)
    ELSE x.sign * BigCmp(x.man, y.man)

\* x >= y; False when either is NaN
fge(x, y) == ~isnan(x) /\ ~isnan(y) /\ fcmp(x, y) >= 0

\* x > y; False when either is NaN
fgt(x, y) == ~isnan(x) /\ ~isnan(y) /\ fcmp(x, y) > 0

\* a number printed with a fixed count of decimals: the sign and the
\* digits as one natural number ("-0.05" is negative with units 5)
Decimal(sign, units, decimals) ==
    [tag |-> "decimal", negative |-> sign < 0, units |-> units,
     decimals |-> decimals]

\* f"{x:.<decimals>f}"
fmt_f(x, decimals) ==
    IF isnan(x) THEN Str("nan")
    ELSE LET n == BigMulInt(x.man, 10 ^ decimals)
             units == IF x.exp >= 0 THEN BigShl(n, x.exp)
                      ELSE RoundShift(n, -x.exp, FALSE)
         IN  Decimal(x.sign, IntOfBig(units), decimals)

\* a percentage of config.py as the float it is there: 0.20 for 20
pct_float(p) == float_of(Pct(p))

\* the thresholds of config.py as floats
EpsGrowthThreshold == pct_float(EPS_GROWTH_THRESHOLD)
RevGrowthThreshold == pct_float(REV_GROWTH_THRESHOLD)
RoeThreshold == pct_float(ROE_THRESHOLD)

\* an amount of the financial data, kept in hundredths, as the float it is
\* in the dict: 1.25 for Num(125)
amount_float(x) == float_of(Frac(x.v, 100))

(***************************************************************************)
(* FundamentalFilter                                                       *)
(***************************************************************************)
\* (current - year_ago) / abs(year_ago) on floats
growth_rate(current, year_ago) ==
    fdiv(fsub(current, year_ago), fabs(year_ago))

\* the EPS growth of check_current_earnings; eps_list[0] and eps_list[4]
\* are the first and fifth items
eps_growth_of(fd) ==
    IF "quarterly_eps" \in DOMAIN fd /\ truthy(fd["quarterly_eps"])
    THEN LET eps_list == fd["quarterly_eps"].items
         IN  IF Len(eps_list) >= 5
             THEN LET current_eps == eps_list[1]
                      year_ago_eps == eps_list[5]
                  IN  IF /\ truthy(year_ago_eps)
                         /\ ne_zero(year_ago_eps)
                         /\ truthy(current_eps)
                      THEN growth_rate(amount_float(current_eps),
                                       amount_float(year_ago_eps))
                      ELSE FloatZero(1)
             ELSE FloatZero(1)
    ELSE FloatZero(1)

\* the revenue growth of check_current_earnings
revenue_growth_of(fd) ==
    IF "quarterly_revenue" \in DOMAIN fd /\ truthy(fd["quarterly_revenue"])
    THEN LET revenue_list == fd["quarterly_revenue"].items
         IN  IF Len(revenue_list) >= 5
             THEN LET current_revenue == revenue_list[1]
                      year_ago_revenue == revenue_list[5]
                  IN  IF /\ truthy(year_ago_revenue)
                         /\ ne_zero(year_ago_revenue)
                         /\ truthy(current_revenue)
                      THEN growth_rate(amount_float(current_revenue),
                                       amount_float(year_ago_revenue))
                      ELSE FloatZero(1)
             ELSE FloatZero(1)
    ELSE FloatZero(1)

\* mutant of current_passes: both growth rates must reach their threshold
current_passes_both(eps_growth, revenue_growth) ==
    /\ fge(eps_growth, EpsGrowthThreshold)
    /\ fge(revenue_growth, RevGrowthThreshold)

current_passes(eps_growth, revenue_growth) ==
    \/ fge(eps_growth, EpsGrowthThreshold)
    \/ fge(revenue_growth, RevGrowthThreshold)

\* return passes, eps_growth, revenue_growth
current_earnings_of(eps_growth, revenue_growth) ==
    [passes |-> current_passes(eps_growth, revenue_growth),
     eps_growth |-> eps_growth,
     revenue_growth |-> revenue_growth]

\* returns (passes, eps_growth, revenue_growth)
check_current_earnings(fd) ==
    current_earnings_of(eps_growth_of(fd), revenue_growth_of(fd))

\* the ROE of check_annual_earnings
roe_of(fd) ==
    IF "roe" \in DOMAIN fd /\ ~is_none(fd["roe"])
    THEN amount_float(fd["roe"])
    ELSE FloatZero(1)

\* mutant of check_annual_earnings: an ROE equal to the threshold fails
check_annual_earnings_strict(fd) ==
    LET roe == roe_of(fd)
    IN  [passes |-> fgt(roe, RoeThreshold), roe |-> roe]

\* return passes, roe
annual_earnings_of(roe) == [passes |-> fge(roe, RoeThreshold), roe |-> roe]

\* returns (passes, roe)
check_annual_earnings(fd) == annual_earnings_of(roe_of(fd))

\* mutant of dict_get: get(key), the default is dropped
dict_get_no_default(d, key, default) ==
    IF key \in DOMAIN d THEN d[key] ELSE None

\* d.get(key, default): the value under a key that is present (None
\* included), the default only when the key is not in the dict
dict_get(d, key, default) == IF key \in DOMAIN d THEN d[key] ELSE default

\* mutant of is_qualified: one passing check qualifies
is_qualified_either(fd) ==
    LET current == check_current_earnings(fd)
        annual == check_annual_earnings(fd)
    IN  [is_qualified |-> current.passes \/ annual.passes,
         metrics |-> [eps_growth_q |-> current.eps_growth,
                      revenue_growth_q |-> current.revenue_growth,
                      roe |-> annual.roe,
                      sector |-> dict_get(fd, "sector", Str("N/A")),
                      industry |-> dict_get(fd, "industry", Str("N/A"))]]

\* the verdict and the metrics is_qualified builds from the results of
\* its two checks
verdict_of(fd, current, annual) ==
    [is_qualified |-> current.passes /\ annual.passes,
     metrics |-> [eps_growth_q |-> current.eps_growth,
                  revenue_growth_q |-> current.revenue_growth,
                  roe |-> annual.roe,
                  sector |-> dict_get(fd, "sector", Str("N/A")),
                  industry |-> dict_get(fd, "industry", Str("N/A"))]]

\* returns (is_qualified, metrics)
is_qualified(fd) ==
    verdict_of(fd, check_current_earnings(fd), check_annual_earnings(fd))

(***************************************************************************)
(* ExitStrategyCalculator and models.ExitStrategy.  Prices and moving      *)
(* averages are Python floats; a text built by an f-string is a record of  *)
(* its template and of the amount formatted into it.                       *)
(***************************************************************************)
\* the literal 1 of "1 + pct" and "1 - pct"
FloatOne == float_of(Int2Frac(1))

\* 1 + config.PROFIT_TARGET_PCT, 1 - config.STOP_LOSS_PCT and
\* 1 - config.MA_STOP_LOSS_PCT: 1.2, 0.9299999999999999 and 0.97
ProfitFactor == fadd(FloatOne, pct_float(PROFIT_TARGET_PCT))
StopFactor == fsub(FloatOne, pct_float(STOP_LOSS_PCT))
MaStopFactor == fsub(FloatOne, pct_float(MA_STOP_LOSS_PCT))

\* x < 0 on floats; False for NaN and for -0.0
FloatLT0(x) == x.sign < 0 /\ x.man # <<>>

\* x > 0 on floats; False for NaN
FloatGT0(x) == x.sign > 0 /\ x.man # <<>>

\* f"{x:.2f}"
fmt_2f(x) == fmt_f(x, 2)

\* mutant of calculate_profit_target: the target follows the moving average
calculate_profit_target_of_ma(current_price, ma_10) ==
    [target_price |-> fmul(ma_10, ProfitFactor),
     condition |-> [text |-> "below 10-day moving average",
                    amount |-> fmt_2f(ma_10)],
     reason |-> "take profit below the 10-day moving average"]

\* mutant of calculate_profit_target: the percentage is taken off the price
calculate_profit_target_below(current_price, ma_10) ==
    [target_price |->
         fmul(current_price, fsub(FloatOne, pct_float(PROFIT_TARGET_PCT))),
     condition |-> [text |-> "below 10-day moving average",
                    amount |-> fmt_2f(ma_10)],
     reason |-> "take profit below the 10-day moving average"]

calculate_profit_target(current_price, ma_10) ==
    [target_price |-> fmul(current_price, ProfitFactor),
     condition |-> [text |-> "below 10-day moving average",
                    amount |-> fmt_2f(ma_10)],
     reason |-> "take profit below the 10-day moving average"]

\* mutant of calculate_stop_loss: the two percentages are exchanged
calculate_stop_loss_swapped(current_price, ma_50) ==
    LET stop_price == fmul(current_price, MaStopFactor)
        ma_50_threshold == fmul(ma_50, StopFactor)
    IN  [stop_price |-> stop_price,
         ma_stop_condition |->
             [text |-> "3 percent or more below 50-day moving average",
              amount |-> fmt_2f(ma_50_threshold)],
         reason |-> "stop loss 7 percent down or 3 percent below 50-day"]

calculate_stop_loss(current_price, ma_50) ==
    LET stop_price == fmul(current_price, StopFactor)
        ma_50_threshold == fmul(ma_50, MaStopFactor)
    IN  [stop_price |-> stop_price,
         ma_stop_condition |->
             [text |-> "3 percent or more below 50-day moving average",
              amount |-> fmt_2f(ma_50_threshold)],
         reason |-> "stop loss 7 percent down or 3 percent below 50-day"]

\* raise FileNotFoundError(message)
FileNotFoundError(message) == [tag |-> "raised", exc |-> "FileNotFoundError",
                               message |-> message]

\* raise ValueError(message)
ValueError(message) == [tag |-> "raised", exc |-> "ValueError",
                        message |-> message]

\* the outcome of a call is an exception
raised(x) == x.tag = "raised"

\* mutant of ExitStrategy: a price of 0 is refused as well
ExitStrategy_positive(profit_target_price, profit_condition, profit_reason, stop_loss_price, stop_loss_condition, stop_loss_reason) ==
    IF ~FloatGT0(profit_target_price)
    THEN ValueError("profit_target_price must be non-negative")
    ELSE IF ~FloatGT0(stop_loss_price)
    THEN ValueError("stop_loss_price must be non-negative")
    ELSE [tag |-> "ExitStrategy",
          profit_target_price |-> profit_target_price,
          profit_condition |-> profit_condition,
          profit_reason |-> profit_reason,
          stop_loss_price |-> stop_loss_price,
          stop_loss_condition |-> stop_loss_condition,
          stop_loss_reason |-> stop_loss_reason]

\* the dataclass constructor with its __post_init__
ExitStrategy(profit_target_price, profit_condition, profit_reason, stop_loss_price, stop_loss_condition, stop_loss_reason) ==
    IF FloatLT0(profit_target_price)
    THEN ValueError("profit_target_price must be non-negative")
    ELSE IF FloatLT0(stop_loss_price)
    THEN ValueError("stop_loss_price must be non-negative")
    ELSE [tag |-> "ExitStrategy",
          profit_target_price |-> profit_target_price,
          profit_condition |-> profit_condition,
          profit_reason |-> profit_reason,
          stop_loss_price |-> stop_loss_price,
          stop_loss_condition |-> stop_loss_condition,
          stop_loss_reason |-> stop_loss_reason]

(***************************************************************************)
(* Inputs: price series with a first bar, a run of equal middle bars and a *)
(* last bar, long or short against the 50-, 200- and 252-bar windows       *)
(***************************************************************************)
Tickers == 1..MaxTickers

Series(n, first, mid, last) ==
    [i \in 1..n |-> IF i = n THEN last ELSE IF i = 1 THEN first ELSE mid]

Sh(n, cf, cm, cl, vf, vm) ==
    [Close |-> Series(n, cf, cm, cl), Volume |-> Series(n, vf, vm, vm)]

Shapes ==
    { Sh(1, 10, 10, 10, 200000, 200000),
      Sh(50, 9, 9, 9, 1, 200001),
      Sh(199, 10, 12, 20, 1, 200001),
      Sh(200, 10, 10, 10, 1, 200000),
      Sh(200, 11, 10, 10, 200000, 199999),
      Sh(252, 20, 16, 16, 200000, 200000),
      Sh(252, 20, 17, 17, 200000, 200000),
      Sh(253, 20, 16, 16, 200000, 200000) }

\* no benchmark rows, or a benchmark that fell by 15 percent
Benchmarks == { <<>>, <<40, 34>> }

Block(t, sh) == [ticker |-> t, Close |-> sh.Close, Volume |-> sh.Volume]

\* the frames main() builds: one block per ticker, tickers distinct, in the
\* order of the ticker list (any order)
Frames ==
    UNION { { [i \in 1..k |-> Block(ts[i], shs[i])] :
                ts \in { f \in [1..k -> Tickers] :
                            \A i, j \in 1..k : i # j => f[i] # f[j] },
                shs \in [1..k -> Shapes] } : k \in 0..MaxTickers }

\* {}
EmptyDict == <<>>

\* no call of the exit calculator or of a constructor is under way
NoArgs == <<>>

\* neither main() nor fetch_with_retry() is running
MainIdle ==
    /\ pc = "idle"
    /\ attempt = 0
    /\ candidates = <<>>
    /\ qualified_stocks = <<>>
    /\ processed_count = 0
    /\ skipped_count = 0
    /\ notification_success_count = 0
    /\ notification_failed_count = 0
    /\ log = <<>>
    /\ exit_strategy = None
    /\ chart_path = None
    /\ company_info = None
    /\ news_items = None

Init ==
    /\ data \in Frames
    /\ spy_data \in Benchmarks
    /\ financial_data = EmptyDict
    /\ args = NoArgs
    /\ called = "none"
    /\ ret = <<>>
    /\ MainIdle

Call(name, value) ==
    /\ called = "none"
    /\ called' = name
    /\ ret' = value
    /\ UNCHANGED <<data, spy_data, financial_data, args, attempt>>
    /\ UNCHANGED main_vars

ApplyPriceFilter == Call("apply_price_filter", apply_price_filter(data))

ApplyVolumeFilter == Call("apply_volume_filter", apply_volume_filter(data))

ApplyTrendFilter == Call("apply_trend_filter", apply_trend_filter(data))

ApplyNearHighFilter ==
    Call("apply_near_high_filter", apply_near_high_filter(data))

ApplyRsFilter == Call("apply_rs_filter", apply_rs_filter(data, spy_data))

FilterAll == Call("filter_all", filter_all(data, spy_data))

Next ==
    \/ ApplyPriceFilter
    \/ ApplyVolumeFilter
    \/ ApplyTrendFilter
    \/ ApplyNearHighFilter
    \/ ApplyRsFilter
    \/ FilterAll

Spec == Init /\ [][Next]_vars

(***************************************************************************)
(* Inputs of the fundamental checks: quarterly lists, newest first, of up  *)
(* to MaxQuarters values, with the newest and the year-ago quarter drawn   *)
(* from present, zero and missing values; each key may be absent or None.  *)
(* Amounts are in hundredths: Num(125) is the float 1.25 of the dict, and  *)
(* an ROE of Num(15) is 0.15.  From 1.00 to 1.20 the growth computed in    *)
(* floats is 0.19999999999999996, from 1.25 to 1.50 it is 0.2 exactly.     *)
(***************************************************************************)
Missing == [tag |-> "missing"]

QList(n, newest, year_ago) ==
    List([i \in 1..n |-> IF i = 1 THEN newest
                         ELSE IF i = 5 THEN year_ago ELSE Num(100)])

NewestValues == {None, Num(0), Num(120), Num(150)}

YearAgoValues == {None, Num(0), Num(100), Num(125), Num(-100)}

\* the list of test_check_current_earnings_eps_growth_passes:
\* [1.25, 1.10, 1.05, 1.00, 1.00]
ExampleEps == List(<<Num(125), Num(110), Num(105), Num(100), Num(100)>>)

QuarterLists ==
    {QList(n, Num(125), Num(100)) : n \in {k \in 0..MaxQuarters : k < 5}}
        \cup {QList(n, a, b) :
                 n \in {k \in 0..MaxQuarters : k >= 5},
                 a \in NewestValues, b \in YearAgoValues}
        \cup {ExampleEps}

QuarterOptions == QuarterLists \cup {None, Missing}

RoeOptions == {Missing, None, Num(-5), Num(0), Num(14), Num(15), Num(20)}

MkDict(eps, rev, roe) ==
    LET keys == (IF eps.tag = "missing" THEN {} ELSE {"quarterly_eps"})
                    \cup (IF rev.tag = "missing" THEN {}
                          ELSE {"quarterly_revenue"})
                    \cup (IF roe.tag = "missing" THEN {} ELSE {"roe"})
    IN  [k \in keys |-> CASE k = "quarterly_eps" -> eps
                           [] k = "quarterly_revenue" -> rev
                           [] k = "roe" -> roe]

FinancialInputs ==
    {MkDict(eps, rev, roe) :
        eps \in QuarterOptions, rev \in QuarterOptions, roe \in RoeOptions}

InitFund ==
    /\ data = EmptyFrame
    /\ spy_data = <<>>
    /\ financial_data \in FinancialInputs
    /\ args = NoArgs
    /\ called = "none"
    /\ ret = <<>>
    /\ MainIdle

CheckCurrentEarnings ==
    Call("check_current_earnings", check_current_earnings(financial_data))

CheckAnnualEarnings ==
    Call("check_annual_earnings", check_annual_earnings(financial_data))

NextFund ==
    \/ CheckCurrentEarnings
    \/ CheckAnnualEarnings

SpecFund == InitFund /\ [][NextFund]_vars

(***************************************************************************)
(* Inputs of is_qualified: the dicts of the fundamental checks, with the   *)
(* sector and the industry present, None or absent                         *)
(***************************************************************************)
SectorOptions == {Missing, None, Str("Technology")}

IndustryOptions == {Missing, None, Str("Software")}

\* the dict d with the key set to the value, unless the value is Missing
WithKey(d, key, value) ==
    IF value.tag = "missing" THEN d
    ELSE [k \in DOMAIN d \cup {key} |-> IF k = key THEN value ELSE d[k]]

QualifyInputs ==
    {WithKey(WithKey(fd, "sector", s), "industry", i) :
        fd \in FinancialInputs, s \in SectorOptions, i \in IndustryOptions}

InitQualify ==
    /\ data = EmptyFrame
    /\ spy_data = <<>>
    /\ financial_data \in QualifyInputs
    /\ args = NoArgs
    /\ called = "none"
    /\ ret = <<>>
    /\ MainIdle

IsQualified == Call("is_qualified", is_qualified(financial_data))

NextQualify == IsQualified

SpecQualify == InitQualify /\ [][NextQualify]_vars

(***************************************************************************)
(* Inputs of the exit calculator and of the ExitStrategy constructor:      *)
(* prices around the examples of the tests, negative, zero and positive,   *)
(* written as decimal amounts: the argument of the call is float_of of the *)
(* amount, the float of the literal (25.5 for 51/2, the double nearest to  *)
(* 0.01 for 1/100); a moving average may also be NaN (fewer bars than its  *)
(* window)                                                                 *)
(***************************************************************************)
Prices ==
    { Frac(-180, 1), Frac(-1, 100), Zero, Frac(1, 100), Frac(51, 2),
      Int2Frac(50), Int2Frac(90), Int2Frac(100), Int2Frac(150) }

Averages == Prices \cup { Frac(191, 2), Frac(9001, 100), Frac(1, 8), NaN }

ExitArgs ==
    [fn : {"calculate_profit_target"}, current_price : Prices,
     ma_10 : Averages]
        \cup [fn : {"calculate_stop_loss"}, current_price : Prices,
              ma_50 : Averages]
        \cup [fn : {"ExitStrategy"}, profit_target_price : Prices,
              stop_loss_price : Prices]

InitExit ==
    /\ data = EmptyFrame
    /\ spy_data = <<>>
    /\ financial_data = EmptyDict
    /\ args \in ExitArgs
    /\ called = "none"
    /\ ret = <<>>
    /\ MainIdle

CalculateProfitTarget ==
    /\ args.fn = "calculate_profit_target"
    /\ Call("calculate_profit_target",
            calculate_profit_target(float_of(args.current_price),
                                    float_of(args.ma_10)))

CalculateStopLoss ==
    /\ args.fn = "calculate_stop_loss"
    /\ Call("calculate_stop_loss",
            calculate_stop_loss(float_of(args.current_price),
                                float_of(args.ma_50)))

NewExitStrategy ==
    /\ args.fn = "ExitStrategy"
    /\ Call("ExitStrategy",
            ExitStrategy(float_of(args.profit_target_price),
                         "profit condition", "profit reason",
                         float_of(args.stop_loss_price),
                         "stop condition", "stop reason"))

NextExit ==
    \/ CalculateProfitTarget
    \/ CalculateStopLoss
    \/ NewExitStrategy

SpecExit == InitExit /\ [][NextExit]_vars

(***************************************************************************)
(* Exceptions.  A filter raises KeyError when a non-empty frame lacks the  *)
(* column it reads; a fundamental check raises TypeError when it applies   *)
(* len(), -, abs() or >= to a value of the wrong type.  try_f is the call  *)
(* of f with its outcome: the value returned or the exception raised.      *)
(***************************************************************************)
KeyError(key) == [tag |-> "raised", exc |-> "KeyError", message |-> key]

TypeError(message) ==
    [tag |-> "raised", exc |-> "TypeError", message |-> message]

\* the outcome of a call that returned a value
returned(value) == [tag |-> "returned", value |-> value]

\* every row has the column
has_column(df, column) == \A i \in 1..Len(df) : column \in DOMAIN df[i]

try_apply_price_filter(df) ==
    IF ~empty(df) /\ ~has_column(df, "Close") THEN KeyError("Close")
    ELSE returned(apply_price_filter(df))

try_apply_volume_filter(df) ==
    IF ~empty(df) /\ ~has_column(df, "Volume") THEN KeyError("Volume")
    ELSE returned(apply_volume_filter(df))

try_apply_trend_filter(df) ==
    IF ~empty(df) /\ ~has_column(df, "Close") THEN KeyError("Close")
    ELSE returned(apply_trend_filter(df))

try_apply_near_high_filter(df) ==
    IF ~empty(df) /\ ~has_column(df, "Close") THEN KeyError("Close")
    ELSE returned(apply_near_high_filter(df))

try_apply_rs_filter(df, spy) ==
    IF ~empty(df) /\ ~empty(spy) /\ ~has_column(df, "Close")
    THEN KeyError("Close")
    ELSE returned(apply_rs_filter(df, spy))

try_filter_all(df, spy) ==
    IF ~empty(df) /\ ~has_column(df, "Close") THEN KeyError("Close")
    ELSE IF ~empty(apply_price_filter(df)) /\ ~has_column(df, "Volume")
    THEN KeyError("Volume")
    ELSE returned(filter_all(df, spy))

\* the growth computation under a key raises: len() of a number, or - and
\* abs() on a value that is no number
growth_raises(fd, key) ==
    /\ key \in DOMAIN fd
    /\ truthy(fd[key])
    /\ \/ fd[key].tag = "num"
       \/ /\ fd[key].tag = "list"
          /\ Len(fd[key].items) >= 5
          /\ LET current == fd[key].items[1]
                 year_ago == fd[key].items[5]
             IN  /\ truthy(year_ago)
                 /\ ne_zero(year_ago)
                 /\ truthy(current)
                 /\ (current.tag # "num" \/ year_ago.tag # "num")

\* mutant of roe_raises: without the `is not None` test None >= 0.15 raises
roe_raises_unguarded(fd) == "roe" \in DOMAIN fd /\ fd["roe"].tag # "num"

\* roe >= ROE_THRESHOLD raises for a value that is no number; None has been
\* replaced by 0.0 before
roe_raises(fd) ==
    "roe" \in DOMAIN fd /\ ~is_none(fd["roe"]) /\ fd["roe"].tag # "num"

try_check_current_earnings(fd) ==
    IF growth_raises(fd, "quarterly_eps")
           \/ growth_raises(fd, "quarterly_revenue")
    THEN TypeError("unsupported operand")
    ELSE returned(check_current_earnings(fd))

try_check_annual_earnings(fd) ==
    IF roe_raises(fd) THEN TypeError("'>=' not supported")
    ELSE returned(check_annual_earnings(fd))

\* an exception of the first check, or else of the second, ends the call
first_raised(current, annual, result) ==
    IF raised(current) THEN current
    ELSE IF raised(annual) THEN annual
    ELSE result

try_is_qualified(fd) ==
    first_raised(try_check_current_earnings(fd),
                 try_check_annual_earnings(fd),
                 returned(is_qualified(fd)))

(***************************************************************************)
(* Inputs of every filter and check: the frames and dicts above, which are *)
(* complete or merely incomplete, and a few that are malformed (a missing  *)
(* column, a value of the wrong type)                                      *)
(***************************************************************************)
MalformedFrames ==
    { <<[ticker |-> 1, Close |-> <<10>>]>>,
      <<[ticker |-> 1, Volume |-> <<200000>>]>> }

MalformedDicts ==
    { MkDict(Missing, Missing, Str("N/A")),
      MkDict(Num(5), Missing, Missing),
      MkDict(Missing,
             List(<<Num(120), Num(100), Num(100), Num(100), Str("N/A")>>),
             Missing) }

TotalDicts ==
    FinancialInputs
        \cup {WithKey(WithKey(EmptyDict, "sector", s), "industry", i) :
                  s \in SectorOptions, i \in IndustryOptions}
        \cup MalformedDicts

InitTotal ==
    /\ \/ /\ data \in Frames \cup MalformedFrames
          /\ spy_data \in Benchmarks
          /\ financial_data = EmptyDict
       \/ /\ data = EmptyFrame
          /\ spy_data = <<>>
          /\ financial_data \in TotalDicts
    /\ args = NoArgs
    /\ called = "none"
    /\ ret = <<>>
    /\ MainIdle

TryApplyPriceFilter ==
    Call("apply_price_filter", try_apply_price_filter(data))

TryApplyVolumeFilter ==
    Call("apply_volume_filter", try_apply_volume_filter(data))

TryApplyTrendFilter ==
    Call("apply_trend_filter", try_apply_trend_filter(data))

TryApplyNearHighFilter ==
    Call("apply_near_high_filter", try_apply_near_high_filter(data))

TryApplyRsFilter ==
    Call("apply_rs_filter", try_apply_rs_filter(data, spy_data))

TryFilterAll == Call("filter_all", try_filter_all(data, spy_data))

TryCheckCurrentEarnings ==
    Call("check_current_earnings",
         try_check_current_earnings(financial_data))

TryCheckAnnualEarnings ==
    Call("check_annual_earnings", try_check_annual_earnings(financial_data))

TryIsQualified == Call("is_qualified", try_is_qualified(financial_data))

NextTotal ==
    \/ TryApplyPriceFilter
    \/ TryApplyVolumeFilter
    \/ TryApplyTrendFilter
    \/ TryApplyNearHighFilter
    \/ TryApplyRsFilter
    \/ TryFilterAll
    \/ TryCheckCurrentEarnings
    \/ TryCheckAnnualEarnings
    \/ TryIsQualified

SpecTotal == InitTotal /\ [][NextTotal]_vars

(***************************************************************************)
(* main(): technical screening, the fundamental loop over the candidates   *)
(* and the notification loop over the qualified stocks.  What              *)
(* fetch_financial_data returns is None or a dict of yfinance frames and   *)
(* the info dict; a frame is the function from its column (or row) labels  *)
(* to the values.                                                          *)
(***************************************************************************)
Dict(items) == [tag |-> "dict", items |-> items]

DataFrame(items) == [tag |-> "frame", items |-> items]

FetchResult(quarterly_earnings, quarterly_financials, info) ==
    [tag |-> "dict", quarterly_earnings |-> quarterly_earnings,
     quarterly_financials |-> quarterly_financials, info |-> info]

\* Earnings in cents, newest first: +25 percent on the year-ago quarter
GoodEarnings == DataFrame([c \in {"Earnings"} |-> ExampleEps.items])

\* a frame without the 'Earnings' column
OtherEarnings == DataFrame([c \in {"Revenue"} |-> ExampleEps.items])

\* revenue up 20 percent on the year-ago quarter: 1.50 on 1.25
GoodFinancials ==
    DataFrame([r \in {"Total Revenue"} |->
                  <<Num(150), Num(140), Num(130), Num(125), Num(125)>>])

\* revenue up 19 percent
WeakFinancials ==
    DataFrame([r \in {"Total Revenue"} |->
                  <<Num(119), Num(110), Num(105), Num(100), Num(100)>>])

FullInfo ==
    Dict([k \in {"returnOnEquity", "sector", "industry"} |->
             CASE k = "returnOnEquity" -> Num(20)
               [] k = "sector" -> Str("Technology")
               [] k = "industry" -> Str("Software")])

\* ROE exactly 0.15, no sector and no industry
BareInfo == Dict([k \in {"returnOnEquity"} |-> Num(15)])

NoRoeInfo ==
    Dict([k \in {"returnOnEquity", "sector"} |->
             IF k = "sector" THEN Str("Technology") ELSE None])

FetchResults ==
    { None,
      FetchResult(GoodEarnings, None, None),
      FetchResult(GoodEarnings, None, FullInfo),
      FetchResult(OtherEarnings, GoodFinancials, BareInfo),
      FetchResult(OtherEarnings, WeakFinancials, FullInfo),
      FetchResult(GoodEarnings, GoodFinancials, NoRoeInfo) }

\* the value under a label of a frame that is not None and not empty and
\* has the label, [] otherwise
frame_list(frame, label) ==
    IF /\ ~is_none(frame)
       /\ DOMAIN frame.items # {}
       /\ label \in DOMAIN frame.items
    THEN frame.items[label]
    ELSE <<>>

\* the financial_dict main() builds from a fetch result
financial_dict(fetched) ==
    LET info == fetched.info.items
        eps_list == frame_list(fetched.quarterly_earnings, "Earnings")
        revenue_list ==
            frame_list(fetched.quarterly_financials, "Total Revenue")
        roe0 == dict_get(info, "returnOnEquity", Num(0))
        roe == IF is_none(roe0) THEN Num(0) ELSE roe0
        sector == dict_get(info, "sector", Str("N/A"))
        industry == dict_get(info, "industry", Str("N/A"))
    IN  [k \in {"quarterly_eps", "quarterly_revenue", "roe", "sector",
                "industry"} |->
            CASE k = "quarterly_eps" -> List(eps_list)
              [] k = "quarterly_revenue" -> List(revenue_list)
              [] k = "roe" -> roe
              [] k = "sector" -> sector
              [] k = "industry" -> industry]

\* mutant of qualifies: every evaluated ticker is kept
qualifies_any(verdict) == TRUE

\* if is_qualified:
qualifies(verdict) == verdict.is_qualified

\* main.py 317-325: what the loop draws from the tuple of is_qualified
outcome_of(verdict) ==
    [outcome |-> IF qualifies(verdict) THEN "qualified" ELSE "not qualified",
     metrics |-> verdict.metrics,
     verdict |-> verdict]

\* the body of the fundamental loop for one fetch result: what happened,
\* and the verdict and its metrics, if any
evaluate(fetched) ==
    IF is_none(fetched)
    THEN [outcome |-> "no data", metrics |-> EmptyDict, verdict |-> None]
    ELSE IF is_none(fetched.info)
    THEN [outcome |-> "raised", metrics |-> EmptyDict, verdict |-> None]
    ELSE outcome_of(is_qualified(financial_dict(fetched)))

\* mutant of list_append: insert(0, item)
list_prepend(list, item) == <<item>> \o list

\* mutant of list_append: the item is not stored
list_append_lost(list, item) == list

\* list.append(item)
list_append(list, item) == Append(list, item)

\* f"{x:.1f}"
fmt_1f(x) == fmt_f(x, 1)

\* the text of the relative strength rating: each return is one float
\* division, their difference and its product with 100 are rounded again
rs_rating_of(ticker_prices, spy_prices) ==
    LET ticker_return_1y == float_of(return_1y(ticker_prices))
        spy_return_1y == float_of(return_1y(spy_prices))
    IN  [text |-> "against the market, in percent",
         amount |-> fmt_1f(fmul(fsub(ticker_return_1y, spy_return_1y),
                                float_of(Int2Frac(100))))]

\* metrics['rs_rating'] = rs_rating
set_rs_rating(metrics, rs_rating) ==
    [k \in DOMAIN metrics \cup {"rs_rating"} |->
        IF k = "rs_rating" THEN rs_rating ELSE metrics[k]]

\* the ExitStrategy main() builds for a ticker's price data
exit_strategy_of(ticker_price_data) ==
    LET current_price ==
            float_of(Int2Frac(iloc_last(ticker_price_data.Close)))
        ma_10 ==
            float_of(rolling_mean_last(ticker_price_data.Close, MA_10_PERIOD))
        ma_50 ==
            float_of(rolling_mean_last(ticker_price_data.Close, MA_50_PERIOD))
        profit_strategy == calculate_profit_target(current_price, ma_10)
        stop_strategy == calculate_stop_loss(current_price, ma_50)
    IN  ExitStrategy(profit_strategy.target_price,
                     profit_strategy.condition,
                     profit_strategy.reason,
                     stop_strategy.stop_price,
                     stop_strategy.ma_stop_condition,
                     stop_strategy.reason)

Event(op, ticker, value) == [op |-> op, ticker |-> ticker, value |-> value]

\* the benchmark of main(): it was fetched, so spy_data is never empty; it
\* fell by 15 or by 25 percent
MainBenchmarks == (Benchmarks \ {<<>>}) \cup {<<40, 30>>}

\* one bar; 200 flat bars; 252 bars 15 percent down from the first
MainShapes ==
    { Sh(1, 10, 10, 10, 200000, 200000),
      Sh(200, 10, 10, 10, 1, 200000),
      Sh(252, 20, 17, 17, 200000, 200000) }

\* price_data_multi: the fetched tickers in the order of the ticker list,
\* here ascending or descending
MainFrames ==
    UNION { { [i \in 1..Len(ts) |-> Block(ts[i], shs[i])] :
                shs \in [1..Len(ts) -> MainShapes] } :
            ts \in { SortAsc(S) : S \in SUBSET Tickers }
                       \cup { Reverse(SortAsc(S)) : S \in SUBSET Tickers } }

InitMain ==
    /\ data \in MainFrames
    /\ spy_data \in MainBenchmarks
    /\ financial_data = EmptyDict
    /\ args = NoArgs
    /\ called = "none"
    /\ ret = <<>>
    /\ pc = "technical"
    /\ attempt = 0
    /\ candidates = <<>>
    /\ qualified_stocks = <<>>
    /\ processed_count = 0
    /\ skipped_count = 0
    /\ notification_success_count = 0
    /\ notification_failed_count = 0
    /\ log = <<>>
    /\ exit_strategy = None
    /\ chart_path = None
    /\ company_info = None
    /\ news_items = None

io_vars == <<data, spy_data, financial_data, args, called, ret, attempt>>

\* main.py 241-266: build price_data_multi and run the technical filters
TechnicalScreen ==
    /\ pc = "technical"
    /\ IF empty(data)
       THEN pc' = "exit 1" /\ UNCHANGED <<candidates, log>>
       ELSE /\ candidates' = filter_all(data, spy_data)
            /\ log' = Append(log, [op |-> "filter_all",
                                   value |-> candidates'])
            /\ pc' = IF candidates' = <<>> THEN "exit 0" ELSE "fundamental"
    /\ UNCHANGED <<qualified_stocks, processed_count, skipped_count,
                   notification_success_count, notification_failed_count>>
    /\ UNCHANGED io_vars
    /\ UNCHANGED pass_locals

\* main.py 278-284: a pass of the loop over the candidates begins: the
\* next candidate is counted, and every pass but the first waits
\* API_CALL_DELAY seconds before it fetches
FundamentalBegin ==
    /\ pc = "fundamental"
    /\ processed_count < Len(candidates)
    /\ processed_count' = processed_count + 1
    /\ log' = IF processed_count' > 1
              THEN Append(log, Event("time.sleep",
                                     candidates[processed_count'],
                                     API_CALL_DELAY))
              ELSE log
    /\ pc' = "evaluate"
    /\ UNCHANGED <<candidates, qualified_stocks, skipped_count,
                   notification_success_count, notification_failed_count>>
    /\ UNCHANGED io_vars
    /\ UNCHANGED pass_locals

\* main.py 319-347: a qualified ticker is appended with its metrics, any
\* other is skipped
Conclude(ticker, result) ==
    /\ IF result.outcome = "qualified"
       THEN /\ qualified_stocks' =
                   list_append(qualified_stocks,
                               [ticker |-> ticker,
                                metrics |-> result.metrics])
            /\ UNCHANGED skipped_count
       ELSE /\ skipped_count' = skipped_count + 1
            /\ UNCHANGED qualified_stocks
    /\ log' = IF result.outcome \in {"no data", "raised"}
              THEN Append(log, Event("fetch_financial_data", ticker,
                                     result.outcome))
              ELSE log \o <<Event("fetch_financial_data", ticker,
                                  result.outcome),
                            Event("is_qualified", ticker, result.verdict)>>

\* main.py 286-347: the rest of the pass: the candidate that was counted is
\* fetched and evaluated, and appended to qualified_stocks or skipped
FundamentalStep ==
    /\ pc = "evaluate"
    /\ \E fetched \in FetchResults :
           Conclude(candidates[processed_count], evaluate(fetched))
    /\ pc' = "fundamental"
    /\ UNCHANGED <<candidates, processed_count, notification_success_count,
                   notification_failed_count>>
    /\ UNCHANGED io_vars
    /\ UNCHANGED pass_locals

\* main.py 351-355: the loop is over; stop when nothing qualified
FundamentalDone ==
    /\ pc = "fundamental"
    /\ processed_count = Len(candidates)
    /\ pc' = IF qualified_stocks = <<>> THEN "exit 0" ELSE "notify"
    /\ UNCHANGED <<candidates, qualified_stocks, processed_count,
                   skipped_count, notification_success_count,
                   notification_failed_count, log>>
    /\ UNCHANGED io_vars
    /\ UNCHANGED pass_locals

\* the position in qualified_stocks of the pass that is next or under way
NotifyIndex == notification_success_count + notification_failed_count + 1

\* generate_chart returns the path of the chart or raises
ChartOutcomes == {"ok", "chart error"}

\* fetch_company_info returns the info or None; it catches what it raises
CompanyInfoOutcomes == {"ok", "no company info"}

\* what fetch_news returns, at most MAX_NEWS_ITEMS dicts with a title and a
\* url: the url is '' for an item without a link, the title '' for an item
\* whose title is empty; it catches what it raises
NewsData ==
    { <<>>,
      <<[title |-> "t1", url |-> "u1"]>>,
      <<[title |-> "t1", url |-> "u1"], [title |-> "t2", url |-> "u2"]>>,
      <<[title |-> "t1", url |-> "u1"], [title |-> "t2", url |-> ""]>>,
      <<[title |-> "", url |-> "u1"]>> }

\* what post_stock_alert does: it returns or it raises
PostOutcomes == {"ok", "post error"}

\* models.py 121-128: NewsItem(title, url, published_date) with the datetime
\* fetch_news gives every item
NewsItem(title, url) ==
    IF title = "" THEN ValueError("title cannot be empty")
    ELSE IF url = "" THEN ValueError("url cannot be empty")
    ELSE [tag |-> "NewsItem", title |-> title, url |-> url]

\* main.py 414-421: the list of the NewsItem of every dict, or the
\* exception of the first that raises
news_items_of(news_data) ==
    LET items == [i \in 1..Len(news_data) |->
                     NewsItem(news_data[i].title, news_data[i].url)]
        failed == {i \in 1..Len(items) : raised(items[i])}
    IN  IF failed = {} THEN List(items)
        ELSE items[CHOOSE i \in failed : \A k \in failed : i <= k]

\* main.py 370-397: a pass of the loop over qualified_stocks begins: the
\* exit plan of the ticker is computed and its ExitStrategy built, and
\* generate_chart is called
NotifyBegin ==
    /\ pc = "notify"
    /\ NotifyIndex <= Len(qualified_stocks)
    /\ LET ticker == qualified_stocks[NotifyIndex].ticker
           strategy == exit_strategy_of(loc_ticker(data, ticker))
       IN  IF raised(strategy)
           THEN /\ notification_failed_count' =
                       notification_failed_count + 1
                /\ UNCHANGED <<pc, exit_strategy, log>>
           ELSE /\ exit_strategy' = strategy
                /\ log' = Append(log, Event("ExitStrategy", ticker,
                                            strategy))
                /\ pc' = "generate_chart"
                /\ UNCHANGED notification_failed_count
    /\ UNCHANGED <<candidates, qualified_stocks, processed_count,
                   skipped_count, notification_success_count, chart_path,
                   company_info, news_items>>
    /\ UNCHANGED io_vars

\* main.py 400: generate_chart has returned the path of the chart, and
\* fetch_company_info is called; or it has raised, and the pass fails
NotifyChart ==
    /\ pc = "generate_chart"
    /\ \E outcome \in ChartOutcomes :
           IF outcome = "chart error"
           THEN /\ notification_failed_count' =
                       notification_failed_count + 1
                /\ pc' = "notify"
                /\ UNCHANGED chart_path
           ELSE /\ chart_path' =
                       [tag |-> "path",
                        ticker |-> qualified_stocks[NotifyIndex].ticker]
                /\ pc' = "fetch_company_info"
                /\ UNCHANGED notification_failed_count
    /\ UNCHANGED <<candidates, qualified_stocks, processed_count,
                   skipped_count, notification_success_count, exit_strategy,
                   company_info, news_items, log>>
    /\ UNCHANGED io_vars

\* main.py 403-410: fetch_company_info has returned; None is replaced by
\* the ticker with the sector and the industry of the metrics; fetch_news
\* is called
NotifyCompanyInfo ==
    /\ pc = "fetch_company_info"
    /\ \E outcome \in CompanyInfoOutcomes :
           LET ticker == qualified_stocks[NotifyIndex].ticker
               metrics == qualified_stocks[NotifyIndex].metrics
           IN  company_info' =
                   IF outcome = "no company info"
                   THEN [name |-> ticker,
                         sector |-> dict_get(metrics, "sector", Str("N/A")),
                         industry |->
                             dict_get(metrics, "industry", Str("N/A"))]
                   ELSE [name |-> ticker,
                         sector |-> Str("Technology"),
                         industry |-> Str("Software")]
    /\ pc' = "fetch_news"
    /\ UNCHANGED <<candidates, qualified_stocks, processed_count,
                   skipped_count, notification_success_count,
                   notification_failed_count, exit_strategy, chart_path,
                   news_items, log>>
    /\ UNCHANGED io_vars

\* main.py 413-430: fetch_news has returned; a NewsItem is built of every
\* dict, and when one raises the pass fails; else the rating is written
\* into the metrics of the ticker, the dict qualified_stocks holds, and
\* post_stock_alert is called
NotifyNews ==
    /\ pc = "fetch_news"
    /\ \E news_data \in NewsData :
           LET ticker == qualified_stocks[NotifyIndex].ticker
               metrics == qualified_stocks[NotifyIndex].metrics
               ticker_price_data == loc_ticker(data, ticker)
           IN  IF raised(news_items_of(news_data))
               THEN /\ notification_failed_count' =
                           notification_failed_count + 1
                    /\ pc' = "notify"
                    /\ UNCHANGED <<qualified_stocks, news_items>>
               ELSE /\ news_items' = news_items_of(news_data)
                    /\ qualified_stocks' =
                           [qualified_stocks EXCEPT ![NotifyIndex].metrics =
                               set_rs_rating(
                                   metrics,
                                   rs_rating_of(ticker_price_data.Close,
                                                spy_data))]
                    /\ pc' = "post_stock_alert"
                    /\ UNCHANGED notification_failed_count
    /\ UNCHANGED <<candidates, processed_count, skipped_count,
                   notification_success_count, exit_strategy, chart_path,
                   company_info, log>>
    /\ UNCHANGED io_vars

\* main.py 433-449: post_stock_alert has returned or raised, and the pass
\* is counted as a success or as a failure
NotifyPost ==
    /\ pc = "post_stock_alert"
    /\ \E outcome \in PostOutcomes :
           LET ticker == qualified_stocks[NotifyIndex].ticker
               ticker_price_data == loc_ticker(data, ticker)
           IN  IF outcome = "post error"
               THEN /\ notification_failed_count' =
                           notification_failed_count + 1
                    /\ UNCHANGED <<notification_success_count, log>>
               ELSE /\ notification_success_count' =
                           notification_success_count + 1
                    /\ log' =
                           Append(log,
                                  Event("post_stock_alert", ticker,
                                        [current_price |->
                                             Int2Frac(iloc_last(
                                                 ticker_price_data.Close)),
                                         metrics |->
                                             qualified_stocks[NotifyIndex]
                                                 .metrics,
                                         exit_strategy |-> exit_strategy,
                                         chart_path |-> chart_path,
                                         news |-> news_items,
                                         company_info |-> company_info]))
                    /\ UNCHANGED notification_failed_count
    /\ pc' = "notify"
    /\ UNCHANGED <<candidates, qualified_stocks, processed_count,
                   skipped_count, pass_locals>>
    /\ UNCHANGED io_vars

\* main.py 452-476: the summary
Summary ==
    /\ pc = "notify"
    /\ notification_success_count + notification_failed_count
           = Len(qualified_stocks)
    /\ pc' = "done"
    /\ UNCHANGED <<candidates, qualified_stocks, processed_count,
                   skipped_count, notification_success_count,
                   notification_failed_count, log>>
    /\ UNCHANGED io_vars
    /\ UNCHANGED pass_locals

NextMain ==
    \/ TechnicalScreen
    \/ FundamentalBegin
    \/ FundamentalStep
    \/ FundamentalDone
    \/ NotifyBegin
    \/ NotifyChart
    \/ NotifyCompanyInfo
    \/ NotifyNews
    \/ NotifyPost
    \/ Summary

SpecMain == InitMain /\ [][NextMain]_vars

(***************************************************************************)
(* apply_price_filter under two configurations: MIN_PRICE is an attribute  *)
(* of the Config the filter is built with and must be positive             *)
(* (Config.validate)                                                       *)
(***************************************************************************)
MinPrices == {9, 10, 11, 17, 21}

PriceArgs ==
    { a \in [fn : {"apply_price_filter"}, p1 : MinPrices, p2 : MinPrices] :
          a.p1 <= a.p2 }

InitPrice ==
    /\ data \in Frames
    /\ spy_data = <<>>
    /\ financial_data = EmptyDict
    /\ args \in PriceArgs
    /\ called = "none"
    /\ ret = <<>>
    /\ MainIdle

\* the filter applied to the same frame with MIN_PRICE = p1 and = p2
ApplyPriceFilterWith ==
    Call("apply_price_filter",
         [low |-> apply_price_filter_with(data, args.p1),
          high |-> apply_price_filter_with(data, args.p2)])

NextPrice == ApplyPriceFilterWith

SpecPrice == InitPrice /\ [][NextPrice]_vars

(***************************************************************************)
(* main.py: fetch_with_retry.  fetch_func is a callable of the caller; each *)
(* call of it either returns a value or raises.  The exception classes are *)
(* those of requests.exceptions (Timeout is a RequestException) and any    *)
(* other subclass of Exception.  backoff_base is a non-negative float,     *)
(* kept as a fraction; time.sleep(wait_time) is recorded, not timed.       *)
(***************************************************************************)
MaxRetries == 3

\* requests.exceptions.Timeout()
Timeout == [tag |-> "raised", exc |-> "Timeout", message |-> ""]

\* requests.exceptions.RequestException(message)
RequestException(message) ==
    [tag |-> "raised", exc |-> "RequestException", message |-> message]

\* what one call of fetch_func can do
FetchFuncOutcomes ==
    { returned(Str("success")), returned(None), Timeout,
      RequestException("Rate limit"), ValueError("Invalid data") }

BackoffBases == { Frac(0, 1), Frac(1, 10), Frac(1, 1), Frac(2, 1), Frac(3, 1) }

RetryArgs ==
    [fn : {"fetch_with_retry"}, max_retries : 0..MaxRetries,
     backoff_base : BackoffBases]

\* x ** k for an int k >= 0; x ** 0 is 1.0 for every x, 0.0 included
FracPow(x, k) == IF k = 0 THEN Frac(1, 1) ELSE <<x[1] ^ k, x[2] ^ k>>

\* mutant of wait_time: the wait grows linearly
wait_time_linear(backoff_base, k) == <<backoff_base[1] * (k + 1), backoff_base[2]>>

\* main.py 72, 85: wait_time = backoff_base ** attempt
wait_time(backoff_base, k) == FracPow(backoff_base, k)

\* mutant of retried: only a Timeout is tried again
retried_timeout_only(outcome) == outcome.exc = "Timeout"

\* main.py 70, 82: the except clauses that retry (except Timeout, except
\* RequestException)
retried(outcome) == outcome.exc \in {"Timeout", "RequestException"}

\* mutant of retry_pass: every exception is tried again
retry_pass_any_exception(outcome, k, max_retries, backoff_base) ==
    IF ~raised(outcome)
    THEN [do |-> "return", value |-> outcome.value]
    ELSE IF k < max_retries - 1
         THEN [do |-> "sleep", value |-> wait_time(backoff_base, k)]
         ELSE [do |-> "return", value |-> None]

\* main.py 66-97: the body of the loop for attempt k, given what
\* fetch_func() did: return its result, sleep and go on, or return None
retry_pass(outcome, k, max_retries, backoff_base) ==
    IF ~raised(outcome)
    THEN [do |-> "return", value |-> outcome.value]
    ELSE IF retried(outcome)
         THEN IF k < max_retries - 1
              THEN [do |-> "sleep", value |-> wait_time(backoff_base, k)]
              ELSE [do |-> "return", value |-> None]
         ELSE [do |-> "return", value |-> None]

\* a call fetch_with_retry makes in pass k: fetch_func() or time.sleep()
Attempted(op, k, value) == [op |-> op, attempt |-> k, value |-> value]

InitRetry ==
    /\ data = EmptyFrame
    /\ spy_data = <<>>
    /\ financial_data = EmptyDict
    /\ args \in RetryArgs
    /\ called = "none"
    /\ ret = <<>>
    /\ pc = "retry"
    /\ attempt = 0
    /\ candidates = <<>>
    /\ qualified_stocks = <<>>
    /\ processed_count = 0
    /\ skipped_count = 0
    /\ notification_success_count = 0
    /\ notification_failed_count = 0
    /\ log = <<>>
    /\ exit_strategy = None
    /\ chart_path = None
    /\ company_info = None
    /\ news_items = None

retry_frame ==
    <<data, spy_data, financial_data, args, called, candidates,
      qualified_stocks, processed_count, skipped_count,
      notification_success_count, notification_failed_count, pass_locals>>

\* main.py 65-97: one pass of `for attempt in range(max_retries)`
RetryPass ==
    /\ pc = "retry"
    /\ attempt < args.max_retries
    /\ \E outcome \in FetchFuncOutcomes :
           LET call == Attempted("fetch_func", attempt, outcome)
               pass == retry_pass(outcome, attempt, args.max_retries,
                                  args.backoff_base)
           IN  IF pass.do = "return"
               THEN /\ log' = Append(log, call)
                    /\ ret' = pass.value
                    /\ pc' = "returned"
                    /\ UNCHANGED attempt
               ELSE /\ log' = log \o <<call, Attempted("sleep", attempt,
                                                       pass.value)>>
                    /\ attempt' = attempt + 1
                    /\ UNCHANGED <<pc, ret>>
    /\ UNCHANGED retry_frame

\* main.py 99: range(max_retries) is used up (reached only when it is empty:
\* the last pass returns from its handler)
RetryLoopEnd ==
    /\ pc = "retry"
    /\ attempt >= args.max_retries
    /\ ret' = None
    /\ pc' = "returned"
    /\ UNCHANGED <<attempt, log>>
    /\ UNCHANGED retry_frame

NextRetry ==
    \/ RetryPass
    \/ RetryLoopEnd

SpecRetry == InitRetry /\ [][NextRetry]_vars

\* the interpreter runs the function to its end
SpecRetryLive == SpecRetry /\ WF_vars(NextRetry)

(***************************************************************************)
(* main.py: safe_process_ticker.  process_func is a callable of the        *)
(* caller; what it does when called with the ticker is part of the         *)
(* arguments (the return_value or side_effect of the tests' Mock).         *)
(***************************************************************************)
\* Exception(message)
Exception(message) ==
    [tag |-> "raised", exc |-> "Exception", message |-> message]

\* DataFrame.empty: no column or no row
frame_empty(frame) ==
    \/ DOMAIN frame.items = {}
    \/ \E c \in DOMAIN frame.items : Len(frame.items[c]) = 0

\* mutant of safe_process_ticker: an empty dict is handed back
safe_process_ticker_keep_dict(ticker, outcome) ==
    IF raised(outcome) THEN None
    ELSE LET result == outcome.value
         IN  IF is_none(result) THEN None
             ELSE IF result.tag = "frame" /\ frame_empty(result) THEN None
             ELSE result

\* main.py 128-155, given the outcome of process_func(ticker): both except
\* clauses return None
safe_process_ticker(ticker, outcome) ==
    IF raised(outcome) THEN None
    ELSE LET result == outcome.value
         IN  IF is_none(result) THEN None
             ELSE IF result.tag = "frame" /\ frame_empty(result) THEN None
             ELSE IF result.tag = "dict" /\ DOMAIN result.items = {}
                  THEN None
             ELSE result

ProcessFuncOutcomes ==
    { returned(None),
      returned(DataFrame(<<>>)),
      returned(DataFrame([c \in {"col"} |-> <<>>])),
      returned(DataFrame([c \in {"col"} |-> <<Num(1), Num(2), Num(3)>>])),
      returned(Dict(<<>>)),
      returned(Dict([k \in {"data"} |-> Str("value")])),
      returned(Dict([k \in {"key"} |-> None])),
      returned(List(<<>>)),
      returned(Num(0)),
      returned(Num(1)),
      returned(Str("")),
      returned(Str("success")),
      ValueError("Invalid ticker"),
      Exception("Unexpected error"),
      KeyError("Close"),
      Timeout }

SafeArgs ==
    [fn : {"safe_process_ticker"},
     ticker : {"AAPL", "INVALID", "NVDA", "BRK.B"},
     process_func : ProcessFuncOutcomes]

InitSafe ==
    /\ data = EmptyFrame
    /\ spy_data = <<>>
    /\ financial_data = EmptyDict
    /\ args \in SafeArgs
    /\ called = "none"
    /\ ret = <<>>
    /\ MainIdle

\* main.py 102-155: the call; process_func(ticker) is called at line 129
SafeProcessTicker ==
    /\ called = "none"
    /\ called' = "safe_process_ticker"
    /\ log' = Append(log, Event("process_func", args.ticker,
                                args.process_func))
    /\ ret' = safe_process_ticker(args.ticker, args.process_func)
    /\ UNCHANGED <<data, spy_data, financial_data, args, attempt, pc,
                   candidates, qualified_stocks, processed_count,
                   skipped_count, notification_success_count,
                   notification_failed_count, pass_locals>>

NextSafe == SafeProcessTicker

SpecSafe == InitSafe /\ [][NextSafe]_vars

(***************************************************************************)
(* modules/data_loader.py: DataLoader.load_ticker_list.  A str is the      *)
(* sequence of its characters; a character outside ASCII is written by its *)
(* code point.  A CSV source is a path ending in '.csv' with what opening  *)
(* and reading it gives: no such file, or the rows csv.reader yields from  *)
(* the file, each row the sequence of its cells (a blank line is the empty *)
(* row), up to the end of the file or up to an error of the read (a        *)
(* directory, bytes that are not UTF-8).                                   *)
(***************************************************************************)
MaxEntries == 3

\* a str value with its characters
Text(chars) == [tag |-> "str", chars |-> chars]

\* a path ending in '.csv': file is "read", "missing" or "unreadable", and
\* rows are the rows that were read
CsvFile(file, rows) == [tag |-> "csv", file |-> file, rows |-> rows]

\* a path ending in '.csv' and the rows of that file, read to its end
Csv(rows) == CsvFile("read", rows)

\* str.upper of the lower-case ASCII letters of the model
Uppercase ==
    [a |-> "A", p |-> "P", l |-> "L", m |-> "M", s |-> "S", f |-> "F",
     t |-> "T"]

AsciiUpper ==
    {"A", "B", "C", "D", "E", "F", "G", "H", "I", "J", "K", "L", "M", "P",
     "R", "S", "T"}

\* U+3042 HIRAGANA LETTER A, U+00DF LATIN SMALL LETTER SHARP S
NonAscii == {"U+3042", "U+00DF"}

\* str.isspace of one character
isspace(c) == c \in {" ", "\t"}

\* str.isascii of one character
isascii(c) == c \notin NonAscii

\* str.isalnum of one character
isalnum(c) ==
    c \in AsciiUpper \cup DOMAIN Uppercase \cup {"1", "U+3042", "U+00DF"}

\* str.upper of one character: the sharp s becomes 'SS'
upper_char(c) ==
    IF c \in DOMAIN Uppercase THEN <<Uppercase[c]>>
    ELSE IF c = "U+00DF" THEN <<"S", "S">>
    ELSE <<c>>

RECURSIVE upper(_)

\* str.upper
upper(s) == IF Len(s) = 0 THEN <<>> ELSE upper_char(Head(s)) \o upper(Tail(s))

RECURSIVE lstrip(_)

\* str.lstrip
lstrip(s) ==
    IF Len(s) > 0 /\ isspace(Head(s)) THEN lstrip(Tail(s)) ELSE s

\* str.strip
strip(s) == Reverse(lstrip(Reverse(lstrip(s))))

\* mutant of is_valid_ticker: no limit on the length
is_valid_ticker_any_length(ticker) ==
    /\ Len(ticker) > 0
    /\ Len(strip(ticker)) > 0
    /\ \A i \in 1..Len(ticker) : isascii(ticker[i])
    /\ \A i \in 1..Len(ticker) :
           isalnum(ticker[i]) \/ ticker[i] \in {"-", "."}

\* data_loader.py 109-143: DataLoader._is_valid_ticker
is_valid_ticker(ticker) ==
    /\ Len(ticker) > 0
    /\ Len(strip(ticker)) > 0
    /\ \A i \in 1..Len(ticker) : isascii(ticker[i])
    /\ Len(ticker) >= 1
    /\ Len(ticker) <= 10
    /\ \A i \in 1..Len(ticker) :
           isalnum(ticker[i]) \/ ticker[i] \in {"-", "."}

RECURSIVE dict_fromkeys(_)

\* list(dict.fromkeys(tickers)): the first occurrence of each value, in order
dict_fromkeys(tickers) ==
    IF Len(tickers) = 0 THEN <<>>
    ELSE LET init == dict_fromkeys(SubSeq(tickers, 1, Len(tickers) - 1))
             last == tickers[Len(tickers)]
         IN  IF \E i \in 1..Len(init) : init[i] = last
             THEN init
             ELSE Append(init, last)

\* data_loader.py 90-94: the loop over a Python list
tickers_of_list(items) ==
    LET strs == SelectSeq(items, LAMBDA x : x.tag = "str")
        cleaned == [i \in 1..Len(strs) |-> upper(strip(strs[i].chars))]
    IN  SelectSeq(cleaned, is_valid_ticker)

\* data_loader.py 68-77: the first row, then the remaining rows
tickers_of_csv(rows) ==
    LET first_row == IF Len(rows) = 0 THEN <<>> ELSE rows[1]
        first == IF Len(first_row) > 0 /\ is_valid_ticker(first_row[1])
                 THEN <<upper(strip(first_row[1]))>>
                 ELSE <<>>
        others == SelectSeq(IF Len(rows) = 0 THEN <<>> ELSE Tail(rows),
                            LAMBDA row : Len(row) > 0)
        cleaned == [i \in 1..Len(others) |-> upper(strip(others[i][1]))]
    IN  first \o SelectSeq(cleaned, is_valid_ticker)

\* data_loader.py 60-107: DataLoader.load_ticker_list
load_ticker_list(source) ==
    LET tickers == IF source.tag = "csv" THEN tickers_of_csv(source.rows)
                   ELSE tickers_of_list(source.items)
        unique == dict_fromkeys(tickers)
    IN  IF source.tag = "csv" /\ source.file = "missing"
        THEN FileNotFoundError("No such file or directory")
        ELSE IF source.tag = "csv" /\ source.file = "unreadable"
        THEN ValueError("the ticker list could not be read")
        ELSE IF source.tag \in {"csv", "list"}
        THEN List([i \in 1..Len(unique) |-> Text(unique[i])])
        ELSE ValueError("invalid source")

\* the cells of a ticker file and the str entries of a ticker list
Cells ==
    { <<"A", "A", "P", "L">>,
      <<"a", "a", "p", "l">>,
      <<" ", "a", "a", "p", "l", "\t">>,
      <<" ", " ">>,
      <<"B", "R", "K", ".", "B">>,
      <<"B", "F", "-", "B">>,
      <<"A", "B", "C", "D", "E", "F", "G", "H", "I", "J">>,
      <<"A", "B", "C", "D", "E", "F", "G", "H", "I", "J", "K">>,
      <<"U+3042">>,
      <<"A", " ", "L">>,
      <<"U+00DF">>,
      <<"$", "A">> }

\* the entries of a Python list: str values and values of other types
Entries == { Text(c) : c \in Cells } \cup { None, Num(3) }

\* the rows of a file: a blank line, one cell, or a ticker and a second cell
Rows ==
    { <<>> } \cup { <<c>> : c \in Cells }
        \cup { << <<"A", "A", "P", "L">>, <<"1">> >> }

LoadArgs(source) == [fn |-> "load_ticker_list", source |-> source]

\* the source is a list or a file of up to MaxEntries entries, a file that
\* is not there, a file whose read fails after some rows, or a value that
\* is no list and no path ending in '.csv'
InitLoad ==
    /\ data = EmptyFrame
    /\ spy_data = <<>>
    /\ financial_data = EmptyDict
    /\ \E k \in 0..MaxEntries :
           \/ \E s \in [1..k -> Entries] : args = LoadArgs(List(s))
           \/ \E s \in [1..k -> Rows] :
                  args \in {LoadArgs(Csv(s)),
                            LoadArgs(CsvFile("unreadable", s))}
           \/ args = LoadArgs(CsvFile("missing", <<>>))
           \/ \E other \in {None, Num(3), Text(<<"A", "A", "P", "L">>)} :
                  args = LoadArgs(other)
    /\ called = "none"
    /\ ret = <<>>
    /\ MainIdle

LoadTickerList == Call("load_ticker_list", load_ticker_list(args.source))

NextLoad == LoadTickerList

SpecLoad == InitLoad /\ [][NextLoad]_vars

(***************************************************************************)
(* modules/notifier.py: SlackNotifier.post_stock_alert.  What              *)
(* _format_message and the two calls of the Slack client do is part of the *)
(* arguments, as the tests' mocks fix it: each returns or raises.          *)
(***************************************************************************)
\* slack_sdk.errors.SlackApiError whose response carries the error code
SlackApiError(error) ==
    [tag |-> "raised", exc |-> "SlackApiError", message |-> error]

\* what a call of the Slack client can do
SlackOutcomes ==
    { returned(Str("ok")), SlackApiError("invalid_auth"),
      SlackApiError("channel_not_found"), SlackApiError("ratelimited"),
      Exception("Connection reset") }

\* what _format_message can do
FormatOutcomes == { returned(Str("message")), KeyError("roe") }

\* notifier.py 268-285: _upload_chart, given what files_upload_v2 did; both
\* except clauses log and raise
upload_chart(upload) == upload

\* mutant of post_stock_alert_except: an error other than invalid_auth and
\* channel_not_found is only logged
post_stock_alert_except_lenient(e) ==
    IF e.exc = "SlackApiError"
           /\ e.message \in {"invalid_auth", "channel_not_found"}
    THEN e
    ELSE returned(None)

\* notifier.py 92-106: the except clauses of post_stock_alert; every branch
\* logs and raises the exception it caught
post_stock_alert_except(e) ==
    IF e.exc = "SlackApiError"
    THEN CASE e.message = "invalid_auth" -> e
           [] e.message = "channel_not_found" -> e
           [] OTHER -> e
    ELSE e

AlertArgs ==
    [fn : {"post_stock_alert"}, ticker : {"AAPL", "NVDA"},
     format_message : FormatOutcomes, files_upload_v2 : SlackOutcomes,
     chat_postMessage : SlackOutcomes]

InitAlert ==
    /\ data = EmptyFrame
    /\ spy_data = <<>>
    /\ financial_data = EmptyDict
    /\ args \in AlertArgs
    /\ called = "none"
    /\ ret = <<>>
    /\ MainIdle

alert_frame ==
    <<data, spy_data, financial_data, args, attempt, candidates,
      qualified_stocks, processed_count, skipped_count,
      notification_success_count, notification_failed_count, pass_locals>>

\* notifier.py 68-81: the message is formatted and _upload_chart called;
\* files_upload_v2 has returned or raised.  An exception goes through the
\* except clauses and ends the call
PostStockAlertUpload ==
    /\ called = "none"
    /\ pc = "idle"
    /\ IF raised(args.format_message)
       THEN /\ called' = "post_stock_alert"
            /\ ret' = post_stock_alert_except(args.format_message)
            /\ UNCHANGED <<pc, log>>
       ELSE /\ log' = Append(log, Event("files_upload_v2", args.ticker,
                                        args.files_upload_v2))
            /\ IF raised(upload_chart(args.files_upload_v2))
               THEN /\ called' = "post_stock_alert"
                    /\ ret' = post_stock_alert_except(
                                  upload_chart(args.files_upload_v2))
                    /\ UNCHANGED pc
               ELSE /\ pc' = "chat_postMessage"
                    /\ UNCHANGED <<called, ret>>
    /\ UNCHANGED alert_frame

\* notifier.py 84-106: chat_postMessage has returned, and the call returns
\* None, or it has raised, and the exception goes through the except
\* clauses
PostStockAlertPost ==
    /\ called = "none"
    /\ pc = "chat_postMessage"
    /\ log' = Append(log, Event("chat_postMessage", args.ticker,
                                args.chat_postMessage))
    /\ called' = "post_stock_alert"
    /\ ret' = IF raised(args.chat_postMessage)
              THEN post_stock_alert_except(args.chat_postMessage)
              ELSE returned(None)
    /\ pc' = "idle"
    /\ UNCHANGED alert_frame

NextAlert == PostStockAlertUpload \/ PostStockAlertPost

SpecAlert == InitAlert /\ [][NextAlert]_vars

(***************************************************************************)
(* Properties of the technical filters                                     *)
(***************************************************************************)
\* the tickers a call returned, in the order returned
OutTickers ==
    IF called = "filter_all" THEN ret
    ELSE [i \in 1..Len(ret) |-> ret[i].ticker]

Kept(t) == \E i \in 1..Len(OutTickers) : OutTickers[i] = t

InputTickers == {data[i].ticker : i \in 1..Len(data)}

LastOf(s) == s[Len(s)]

\* the position of ticker t in the input frame
InputPos(t) == CHOOSE i \in 1..Len(data) : data[i].ticker = t

\* C2: apply_price_filter keeps a ticker iff its last close is >= MIN_PRICE;
\* a last close equal to MIN_PRICE is kept.
C2_PriceFloor ==
    called = "apply_price_filter" =>
        \A i \in 1..Len(data) :
            Kept(data[i].ticker) <=> LastOf(data[i].Close) >= MIN_PRICE

C2_Witness ==
    /\ called = "apply_price_filter"
    /\ \E i \in 1..Len(data) :
           LastOf(data[i].Close) = MIN_PRICE /\ Kept(data[i].ticker)
    /\ \E i \in 1..Len(data) :
           LastOf(data[i].Close) < MIN_PRICE /\ ~Kept(data[i].ticker)

\* C3: apply_trend_filter drops every ticker with fewer than 200 bars; with
\* at least 200 bars it keeps the ticker iff the last close is >= the mean
\* of the last 200 closes (equality keeps).
C3_Trend ==
    called = "apply_trend_filter" =>
        \A i \in 1..Len(data) :
            LET c == data[i].Close
                n == Len(c)
            IN  IF n < 200 THEN ~Kept(data[i].ticker)
                ELSE Kept(data[i].ticker)
                         <=> 200 * c[n] >= SumRange(c, n - 199, n)

C3_Witness ==
    /\ called = "apply_trend_filter"
    /\ \E i \in 1..Len(data) :
           LET c == data[i].Close
           IN  /\ Len(c) = 199
               /\ \A j \in 1..Len(c) : c[Len(c)] >= c[j]
               /\ ~Kept(data[i].ticker)
    /\ \E i \in 1..Len(data) :
           LET c == data[i].Close
           IN  /\ Len(c) = 200
               /\ 200 * c[200] = SumRange(c, 1, 200)
               /\ Kept(data[i].ticker)

\* C4: with a benchmark series present, apply_rs_filter keeps a ticker iff
\* its return (last - first) / first is strictly greater than the
\* benchmark's; a return equal to the benchmark's is excluded.
C4_RelativeStrength ==
    (called = "apply_rs_filter" /\ Len(spy_data) > 0) =>
        \A i \in 1..Len(data) :
            LET c == data[i].Close
                f == c[1]
                l == c[Len(c)]
                sf == spy_data[1]
                sl == spy_data[Len(spy_data)]
            IN  Kept(data[i].ticker) <=> (l - f) * sf > (sl - sf) * f

C4_Witness ==
    /\ called = "apply_rs_filter"
    /\ Len(spy_data) > 0
    /\ spy_data[1] # LastOf(spy_data)
    /\ \E i \in 1..Len(data) :
           LET c == data[i].Close
           IN  /\ (LastOf(c) - c[1]) * spy_data[1]
                      = (LastOf(spy_data) - spy_data[1]) * c[1]
               /\ ~Kept(data[i].ticker)
    /\ \E i \in 1..Len(data) : Kept(data[i].ticker)

\* C5: apply_volume_filter keeps a ticker iff the mean Volume of its last
\* min(50, length) bars is >= MIN_VOL_AVG (equality keeps); a series
\* shorter than 50 bars is averaged over all its bars.
C5_VolumeFloor ==
    called = "apply_volume_filter" =>
        \A i \in 1..Len(data) :
            LET v == data[i].Volume
                n == Len(v)
                k == IF n < 50 THEN n ELSE 50
            IN  Kept(data[i].ticker)
                    <=> SumRange(v, n - k + 1, n) >= MIN_VOL_AVG * k

C5_Witness ==
    /\ called = "apply_volume_filter"
    /\ \E i \in 1..Len(data) :
           LET v == data[i].Volume
           IN  /\ Len(v) < 50
               /\ SumRange(v, 1, Len(v)) = MIN_VOL_AVG * Len(v)
               /\ Kept(data[i].ticker)
    /\ \E i \in 1..Len(data) :
           Len(data[i].Volume) >= 50 /\ ~Kept(data[i].ticker)

\* C6: apply_near_high_filter keeps a ticker iff its last close is >= 0.85
\* times the highest close of the last min(252, length) bars (equality
\* keeps).
C6_NearHigh ==
    called = "apply_near_high_filter" =>
        \A i \in 1..Len(data) :
            LET c == data[i].Close
                n == Len(c)
                k == IF n < 252 THEN n ELSE 252
            IN  Kept(data[i].ticker)
                    <=> \A j \in (n - k + 1)..n : 100 * c[n] >= 85 * c[j]

C6_Witness ==
    /\ called = "apply_near_high_filter"
    /\ \E i \in 1..Len(data) :
           LET c == data[i].Close
           IN  /\ \E j \in 1..Len(c) : 100 * LastOf(c) = 85 * c[j]
               /\ Kept(data[i].ticker)
    /\ \E i \in 1..Len(data) :
           Len(data[i].Close) > 252 /\ Kept(data[i].ticker)

\* the tickers each filter keeps when it is applied alone to the input
PassesAlone(t) ==
    /\ \E b \in Range1(apply_price_filter(data)) : b.ticker = t
    /\ \E b \in Range1(apply_volume_filter(data)) : b.ticker = t
    /\ \E b \in Range1(apply_trend_filter(data)) : b.ticker = t
    /\ \E b \in Range1(apply_near_high_filter(data)) : b.ticker = t
    /\ \E b \in Range1(apply_rs_filter(data, spy_data)) : b.ticker = t

\* C1: filter_all returns exactly the tickers that each of the five filters
\* keeps when applied alone to the original input; returning [] at the first
\* empty stage does not change that.
C1_Intersection ==
    called = "filter_all" =>
        {ret[i] : i \in 1..Len(ret)} = {t \in InputTickers : PassesAlone(t)}

\* a stage after the first empties the set, and a later stage alone would
\* have kept a ticker
C1_Witness ==
    /\ called = "filter_all"
    /\ ret = <<>>
    /\ Len(data) = 2
    /\ ~empty(apply_price_filter(data))
    /\ Len(spy_data) > 0
    /\ ~empty(apply_rs_filter(data, spy_data))

\* C7 as stated: every output lists the surviving tickers without
\* duplicates, in the order they appear in the input, holds no ticker absent
\* from the input, and is empty for an empty input.
C7_InputOrder ==
    called # "none" =>
        /\ \A i, j \in 1..Len(OutTickers) :
               i < j => InputPos(OutTickers[i]) < InputPos(OutTickers[j])
        /\ \A i \in 1..Len(OutTickers) : OutTickers[i] \in InputTickers
        /\ (data = <<>> => ret = <<>>)

\* C7 amended: filter_all and apply_price_filter list the surviving tickers
\* in ascending ticker order (the sorted group keys), the other four filters
\* in the order they appear in the input; every output is without
\* duplicates, holds no ticker absent from the input, and is empty for an
\* empty input.
C7_Order ==
    called # "none" =>
        /\ called \in {"filter_all", "apply_price_filter"} =>
               \A i, j \in 1..Len(OutTickers) :
                   i < j => OutTickers[i] < OutTickers[j]
        /\ called \notin {"filter_all", "apply_price_filter"} =>
               \A i, j \in 1..Len(OutTickers) :
                   i < j => InputPos(OutTickers[i]) < InputPos(OutTickers[j])
        /\ \A i \in 1..Len(OutTickers) : OutTickers[i] \in InputTickers
        /\ (data = <<>> => ret = <<>>)

\* filter_all returns two tickers of an input that lists them in descending
\* order
C7_Witness ==
    /\ called = "filter_all"
    /\ Len(ret) = 2
    /\ data[1].ticker > data[2].ticker

(***************************************************************************)
(* Properties of the fundamental checks                                    *)
(***************************************************************************)
\* the list under a key, <<>> when the key is absent or holds no list
ItemsOf(key) ==
    IF key \in DOMAIN financial_data /\ financial_data[key].tag = "list"
    THEN financial_data[key].items
    ELSE <<>>

\* a value that is present: a number, not None
Present(x) == x.tag = "num"

\* the growth C8 states for the series under a key, computed in floats as
\* written: (v[0] - v[4]) / |v[4]|
StatedGrowth(key) ==
    LET v == ItemsOf(key)
    IN  IF Len(v) >= 5 /\ Present(v[5]) /\ v[5].v # 0 /\ Present(v[1])
        THEN fdiv(fsub(float_of(<<v[1].v, 100>>), float_of(<<v[5].v, 100>>)),
                  fabs(float_of(<<v[5].v, 100>>)))
        ELSE FloatZero(1)

\* C8: for each of the EPS and revenue series, check_current_earnings
\* reports (v[0] - v[4]) / |v[4]| when the series has at least 5 values,
\* v[4] is present and non-zero and v[0] is present, and 0.0 otherwise.
C8_Growth ==
    called = "check_current_earnings" =>
        /\ ret.eps_growth = StatedGrowth("quarterly_eps")
        /\ ret.revenue_growth = StatedGrowth("quarterly_revenue")

\* 0.20, the default of both growth thresholds
Threshold20 == float_of(<<20, 100>>)

\* C9: check_current_earnings passes iff the EPS growth it reports is
\* >= 0.20 or the revenue growth it reports is >= 0.20 (equality passes);
\* it fails when both series have fewer than 5 values.
C9_Passes ==
    called = "check_current_earnings" =>
        /\ ret.passes <=>
               \/ fcmp(ret.eps_growth, Threshold20) >= 0
               \/ fcmp(ret.revenue_growth, Threshold20) >= 0
        /\ ret.eps_growth = Threshold20 => ret.passes
        /\ ret.revenue_growth = Threshold20 => ret.passes
        /\ (Len(ItemsOf("quarterly_eps")) < 5
                /\ Len(ItemsOf("quarterly_revenue")) < 5) => ~ret.passes

\* the revenue growth alone reaches the threshold, exactly (1.25 to 1.50),
\* while the EPS growth stays just below it (1.00 to 1.20 gives
\* 0.19999999999999996 in floats)
C9_Witness ==
    /\ called = "check_current_earnings"
    /\ ret.passes
    /\ Len(ItemsOf("quarterly_eps")) >= 5
    /\ ItemsOf("quarterly_eps")[1] = Num(120)
    /\ ItemsOf("quarterly_eps")[5] = Num(100)
    /\ fcmp(ret.eps_growth, Threshold20) < 0
    /\ ret.revenue_growth = Threshold20

\* the ROE C10 states: the value under 'roe', 0 when absent or None
StatedRoe ==
    IF "roe" \in DOMAIN financial_data /\ Present(financial_data["roe"])
    THEN financial_data["roe"].v
    ELSE 0

\* C10: check_annual_earnings passes iff ROE >= 0.15 (equality passes),
\* where a missing or None ROE counts and is reported as 0.0 and so fails.
C10_AnnualEarnings ==
    called = "check_annual_earnings" =>
        /\ ret.passes <=> StatedRoe >= 15
        /\ ret.roe = float_of(<<StatedRoe, 100>>)
        /\ ("roe" \notin DOMAIN financial_data
                \/ financial_data["roe"].tag = "None")
               => (~ret.passes /\ ret.roe = FloatZero(1))

\* a None ROE is reported as 0.0 and fails
C10_Witness ==
    /\ called = "check_annual_earnings"
    /\ "roe" \in DOMAIN financial_data
    /\ financial_data["roe"].tag = "None"
    /\ ~ret.passes
    /\ ret.roe = FloatZero(1)

(***************************************************************************)
(* Properties of is_qualified                                              *)
(***************************************************************************)
\* C11: is_qualified returns True iff check_current_earnings and
\* check_annual_earnings both pass on the same input: with one check
\* passing the verdict is the other check's outcome, with either failing
\* the verdict is False; a True verdict has ROE >= 0.15 and an EPS or
\* revenue growth >= 0.20.
C11_Qualified ==
    called = "is_qualified" =>
        LET c == check_current_earnings(financial_data).passes
            a == check_annual_earnings(financial_data).passes
            m == ret.metrics
        IN  /\ ret.is_qualified <=> (c /\ a)
            /\ a => (ret.is_qualified <=> c)
            /\ c => (ret.is_qualified <=> a)
            /\ (~c \/ ~a) => ~ret.is_qualified
            /\ ret.is_qualified <=>
                   /\ StatedRoe >= 15
                   /\ \/ fcmp(m.eps_growth_q, Threshold20) >= 0
                      \/ fcmp(m.revenue_growth_q, Threshold20) >= 0

\* the annual check passes, the current check fails, the verdict is False
C11_Witness ==
    /\ called = "is_qualified"
    /\ check_annual_earnings(financial_data).passes
    /\ ~check_current_earnings(financial_data).passes
    /\ ~ret.is_qualified

\* C12: is_qualified returns a metrics record for every input, qualified
\* or not: eps_growth_q, revenue_growth_q and roe are the values the two
\* checks return, sector and industry are the values under those keys
\* (a None value is returned as None), or "N/A" when the key is not in
\* the input; no input lacking ROE, sector or industry is refused.
C12_Metrics ==
    called = "is_qualified" =>
        LET c == check_current_earnings(financial_data)
            a == check_annual_earnings(financial_data)
            m == ret.metrics
        IN  /\ DOMAIN m = {"eps_growth_q", "revenue_growth_q", "roe",
                           "sector", "industry"}
            /\ m.eps_growth_q = c.eps_growth
            /\ m.revenue_growth_q = c.revenue_growth
            /\ m.roe = a.roe
            /\ m.roe = float_of(<<StatedRoe, 100>>)
            /\ m.sector = IF "sector" \in DOMAIN financial_data
                          THEN financial_data["sector"] ELSE Str("N/A")
            /\ m.industry = IF "industry" \in DOMAIN financial_data
                            THEN financial_data["industry"] ELSE Str("N/A")

\* an input without ROE, sector and industry that does not qualify still
\* gets its metrics, with the defaults
C12_Witness ==
    /\ called = "is_qualified"
    /\ DOMAIN financial_data \cap {"roe", "sector", "industry"} = {}
    /\ ~ret.is_qualified
    /\ ret.metrics.roe = FloatZero(1)
    /\ ret.metrics.sector = Str("N/A")
    /\ ret.metrics.industry = Str("N/A")
    /\ ret.metrics.eps_growth_q = float_of(<<25, 100>>)

(***************************************************************************)
(* Properties of the exit calculator and of ExitStrategy                   *)
(***************************************************************************)
\* x * f / 100 on fractions: the exact value of x * (1 + p) or x * (1 - p)
FracScale(x, f) == <<x[1] * f, x[2] * 100>>

\* 2^-51: two units in the last place of a double, relative to it
TwoUlps == Float(1, BigShl(<<1>>, MantissaBits - 1), -51 - (MantissaBits - 1))

\* two numbers that differ by rounding only
FloatClose(x, y) ==
    /\ ~isnan(x)
    /\ ~isnan(y)
    /\ fcmp(fabs(fsub(x, y)), fmul(fabs(y), TwoUlps)) <= 0

\* the amount printed is a number of the given decimals within half a unit
\* of its last decimal of the fraction q
PrintedNear(a, q, decimals) ==
    /\ a.tag = "decimal"
    /\ a.decimals = decimals
    /\ LET v == IF a.negative THEN -a.units ELSE a.units
           scale == 10 ^ decimals
       IN  /\ 2 * (v * q[2] - scale * q[1]) <= q[2]
           /\ 2 * (scale * q[1] - v * q[2]) <= q[2]

\* C13: calculate_profit_target returns target_price = current_price *
\* (1 + PROFIT_TARGET_PCT), the float product of the price and 1 + 0.20,
\* which is current_price * 1.20 up to rounding, for every current_price,
\* whatever ma_10 is; ma_10 appears only in the condition text, to two
\* decimals; 100.0 gives exactly 120.0 and 150.0 gives 180.0.
C13_ProfitTarget ==
    called = "calculate_profit_target" =>
        LET p == float_of(args.current_price)
            t == ret.target_price
        IN  /\ ~isnan(t)
            /\ t = fmul(p, fadd(float_of(Int2Frac(1)), float_of(Frac(20, 100))))
            /\ FloatClose(t, float_of(FracScale(args.current_price, 120)))
            /\ \A m \in Averages :
                   calculate_profit_target(p, float_of(m)).target_price = t
            /\ args.current_price = Int2Frac(100)
                   => t = float_of(Int2Frac(120))
            /\ args.current_price = Int2Frac(150)
                   => t = float_of(Int2Frac(180))
            /\ notna(args.ma_10)
                   => PrintedNear(ret.condition.amount, args.ma_10, 2)

\* 100.0 with a moving average of 95.5 gives 120.0 and shows 95.50
C13_Witness ==
    /\ called = "calculate_profit_target"
    /\ args.current_price = Int2Frac(100)
    /\ args.ma_10 = Frac(191, 2)
    /\ ret.target_price = float_of(Int2Frac(120))
    /\ ret.condition.amount = Decimal(1, 9550, 2)

\* C14: calculate_stop_loss returns stop_price = current_price *
\* (1 - STOP_LOSS_PCT), the float product of the price and 1 - 0.07, which
\* is current_price * 0.93 up to rounding, whatever ma_50 is, and its
\* moving-average condition shows ma_50 * (1 - MA_STOP_LOSS_PCT) to two
\* decimals; 100.0 and 90.0 give exactly 93.0 and 87.3 (shown as 87.30),
\* and 150.0 gives 139.5.
C14_StopLoss ==
    called = "calculate_stop_loss" =>
        LET p == float_of(args.current_price)
            t == ret.stop_price
            m == args.ma_50
            a == ret.ma_stop_condition.amount
            one == float_of(Int2Frac(1))
        IN  /\ ~isnan(t)
            /\ t = fmul(p, fsub(one, float_of(Frac(7, 100))))
            /\ FloatClose(t, float_of(FracScale(args.current_price, 93)))
            /\ \A m2 \in Averages :
                   calculate_stop_loss(p, float_of(m2)).stop_price = t
            /\ args.current_price = Int2Frac(100)
                   => t = float_of(Int2Frac(93))
            /\ args.current_price = Int2Frac(150)
                   => t = float_of(Frac(279, 2))
            /\ m = Int2Frac(90) =>
                   /\ fmul(float_of(m), fsub(one, float_of(Frac(3, 100))))
                          = float_of(Frac(873, 10))
                   /\ a = Decimal(1, 8730, 2)
            /\ notna(m) => PrintedNear(a, FracScale(m, 97), 2)
            /\ ~notna(m) => a = Str("nan")

\* 100.0 and a 50-day average of 90.0 give 93.0 and a threshold of 87.30
C14_Witness ==
    /\ called = "calculate_stop_loss"
    /\ args.current_price = Int2Frac(100)
    /\ args.ma_50 = Int2Frac(90)
    /\ ret.stop_price = float_of(Int2Frac(93))
    /\ ret.ma_stop_condition.amount = Decimal(1, 8730, 2)

\* C15: constructing an ExitStrategy raises iff profit_target_price < 0 or
\* stop_loss_price < 0; an ExitStrategy that was constructed has both
\* prices >= 0 and holds the six values given; a price of 0 is accepted.
C15_ExitStrategy ==
    called = "ExitStrategy" =>
        LET p == args.profit_target_price
            s == args.stop_loss_price
        IN  /\ raised(ret) <=> (p[1] * p[2] < 0 \/ s[1] * s[2] < 0)
            /\ ~raised(ret) =>
                   /\ ret.profit_target_price = float_of(p)
                   /\ ret.stop_loss_price = float_of(s)
                   /\ fcmp(ret.profit_target_price, FloatZero(1)) >= 0
                   /\ fcmp(ret.stop_loss_price, FloatZero(1)) >= 0
            /\ (p = Zero /\ s = Zero) => ~raised(ret)

\* both prices 0: the ExitStrategy is constructed
C15_Witness ==
    /\ called = "ExitStrategy"
    /\ args.profit_target_price = Zero
    /\ args.stop_loss_price = Zero
    /\ ~raised(ret)
    /\ ret.profit_target_price = FloatZero(1)

(***************************************************************************)
(* Totality                                                                *)
(***************************************************************************)
\* every ticker of the frame has a Close and a Volume series of at least
\* one bar
FrameSound(df) ==
    \A i \in 1..Len(df) :
        /\ {"Close", "Volume"} \subseteq DOMAIN df[i]
        /\ Len(df[i].Close) >= 1
        /\ Len(df[i].Volume) >= 1

\* every key that is present holds None or a value of its type: a list of
\* numbers and Nones of any length, a number, a string
DictSound(fd) ==
    /\ \A k \in DOMAIN fd \cap {"quarterly_eps", "quarterly_revenue"} :
           \/ fd[k].tag = "None"
           \/ /\ fd[k].tag = "list"
              /\ \A j \in 1..Len(fd[k].items) :
                     fd[k].items[j].tag \in {"None", "num"}
    /\ \A k \in DOMAIN fd \cap {"roe"} : fd[k].tag \in {"None", "num"}
    /\ \A k \in DOMAIN fd \cap {"sector", "industry"} :
           fd[k].tag \in {"None", "str"}

\* C16: no technical filter and no fundamental check raises for input that
\* is merely incomplete.  A ticker with fewer than 200 bars is dropped by
\* the trend filter, a series shorter than the 50- or 252-bar window is
\* used whole, a quarterly list that is missing, None, empty or shorter
\* than 5 gives growth 0.0, a missing or None ROE gives 0.0, and a missing
\* sector or industry gives "N/A".
C16_Total ==
    (called # "none" /\ FrameSound(data) /\ DictSound(financial_data)) =>
        /\ ~raised(ret)
        /\ called = "apply_trend_filter" =>
               \A i \in 1..Len(data) :
                   Len(data[i].Close) < 200
                       => data[i] \notin Range1(ret.value)
        /\ called \in {"apply_price_filter", "apply_volume_filter",
                        "apply_near_high_filter", "apply_rs_filter"} =>
               Range1(ret.value) \subseteq Range1(data)
        /\ called = "filter_all" =>
               Range1(ret.value) \subseteq InputTickers
        /\ called = "check_current_earnings" =>
               /\ Len(ItemsOf("quarterly_eps")) < 5
                      => ret.value.eps_growth = FloatZero(1)
               /\ Len(ItemsOf("quarterly_revenue")) < 5
                      => ret.value.revenue_growth = FloatZero(1)
        /\ called = "check_annual_earnings" =>
               (StatedRoe = 0
                    => (ret.value.roe = FloatZero(1) /\ ~ret.value.passes))
        /\ called = "is_qualified" =>
               /\ "sector" \notin DOMAIN financial_data
                      => ret.value.metrics.sector = Str("N/A")
               /\ "industry" \notin DOMAIN financial_data
                      => ret.value.metrics.industry = Str("N/A")
               /\ StatedRoe = 0 => ~ret.value.is_qualified

\* is_qualified of a dict with a 4-quarter EPS list, a None ROE and no
\* sector returns normally
C16_Witness ==
    /\ called = "is_qualified"
    /\ Len(ItemsOf("quarterly_eps")) = 4
    /\ "roe" \in DOMAIN financial_data
    /\ financial_data["roe"].tag = "None"
    /\ "sector" \notin DOMAIN financial_data
    /\ ~raised(ret)
    /\ ~ret.value.is_qualified
    /\ ret.value.metrics.eps_growth_q = FloatZero(1)

(***************************************************************************)
(* Properties of main()                                                    *)
(***************************************************************************)
\* the calls of one operation, in the order made
LogOf(op) == SelectSeq(log, LAMBDA e : e.op = op)

TickersOf(events) == [i \in 1..Len(events) |-> events[i].ticker]

\* no element occurs twice
Distinct(s) == \A i, j \in 1..Len(s) : i # j => s[i] # s[j]

\* the position of x in the sequence s
PosIn(s, x) == CHOOSE i \in 1..Len(s) : s[i] = x

\* sub lists the elements of sub it shares with s, each once, in the
\* order of s
SubsequenceOf(sub, s) ==
    /\ Distinct(sub)
    /\ Range1(sub) \subseteq Range1(s)
    /\ \A i, j \in 1..Len(sub) :
           i < j => PosIn(s, sub[i]) < PosIn(s, sub[j])

\* the metrics is_qualified returned for a ticker
Constructed(t) ==
    LET calls == LogOf("is_qualified")
    IN  calls[PosIn(TickersOf(calls), t)].value.metrics

\* C17: the metrics record of a ticker is the one is_qualified returned,
\* fields and values, while it is held in qualified_stocks and when it is
\* handed to the notifier; main() breaks it when it writes rs_rating into
\* the record before the call of post_stock_alert.
C17_Unmodified ==
    /\ \A j \in 1..Len(qualified_stocks) :
           qualified_stocks[j].metrics
               = Constructed(qualified_stocks[j].ticker)
    /\ \A e \in Range1(LogOf("post_stock_alert")) :
           e.value.metrics = Constructed(e.ticker)

\* a pass of the notification loop is under way: main() waits for the call
\* pc names
InPass ==
    pc \in {"generate_chart", "fetch_company_info", "fetch_news",
            "post_stock_alert"}

\* the passes of the fundamental loop that have ended: inside a pass the
\* candidate is counted already and not yet fetched
PassesDone == IF pc = "evaluate" THEN processed_count - 1 ELSE processed_count

\* C18: the candidates are evaluated one at a time in the order filter_all
\* returned them, none twice; qualified_stocks, and with it the order in
\* which exit plans are computed and alerts posted, is a subsequence of
\* that order.
C18_Order ==
    LET fetched == TickersOf(LogOf("fetch_financial_data"))
        evaluated == TickersOf(LogOf("is_qualified"))
        qualified == TickersOf(qualified_stocks)
    IN  /\ Distinct(candidates)
        /\ Len(fetched) = PassesDone
        /\ processed_count <= Len(candidates)
        /\ fetched = SubSeq(candidates, 1, PassesDone)
        /\ TickersOf(LogOf("time.sleep"))
               = SubSeq(candidates, 2, processed_count)
        /\ SubsequenceOf(evaluated, fetched)
        /\ SubsequenceOf(qualified, evaluated)
        /\ SubsequenceOf(TickersOf(LogOf("ExitStrategy")), qualified)
        /\ SubsequenceOf(TickersOf(LogOf("post_stock_alert")),
                         TickersOf(LogOf("ExitStrategy")))
        /\ (pc \in {"notify", "done"} \/ InPass) => fetched = candidates

\* two candidates, both qualified and both notified, in filter_all's order
C18_Witness ==
    /\ pc = "done"
    /\ Len(candidates) = 2
    /\ TickersOf(qualified_stocks) = candidates
    /\ TickersOf(LogOf("post_stock_alert")) = candidates

\* C19: an ExitStrategy is computed, and an alert posted, for a ticker
\* only if filter_all returned the ticker and is_qualified returned True
\* for it earlier in the run, and at most once per ticker; a candidate
\* whose financial data could not be fetched or whose evaluation raised
\* gets no exit plan and no alert.
C19_ExitOnlyQualified ==
    LET exits == TickersOf(LogOf("ExitStrategy"))
        alerts == TickersOf(LogOf("post_stock_alert"))
    IN  /\ Distinct(exits)
        /\ Distinct(alerts)
        /\ Range1(alerts) \subseteq Range1(exits)
        /\ Len(log) = 1 =>
               /\ log[1].op = "filter_all"
               /\ log[1].value = filter_all(data, spy_data)
        /\ \A n \in 1..Len(log) :
               log[n].op \in {"ExitStrategy", "post_stock_alert"} =>
                   /\ log[1].op = "filter_all"
                   /\ log[n].ticker \in Range1(log[1].value)
                   /\ \E k \in 1..(n - 1) :
                          /\ log[k].op = "is_qualified"
                          /\ log[k].ticker = log[n].ticker
                          /\ log[k].value.is_qualified
        /\ \A n \in 1..Len(log) :
               (log[n].op = "fetch_financial_data"
                    /\ log[n].value \in {"no data", "raised"})
                   => log[n].ticker \notin Range1(exits) \cup Range1(alerts)

\* of two candidates one could not be fetched and the other got its exit
\* plan and its alert
C19_Witness ==
    /\ pc = "done"
    /\ \E e \in Range1(LogOf("fetch_financial_data")) : e.value = "no data"
    /\ Len(LogOf("ExitStrategy")) = 1
    /\ Len(LogOf("post_stock_alert")) = 1

(***************************************************************************)
(* Monotonicity of the price floor                                         *)
(***************************************************************************)
\* C20: for thresholds p1 <= p2 the tickers (and rows) apply_price_filter
\* keeps with MIN_PRICE = p2 are among those it keeps with MIN_PRICE = p1.
C20_Monotone ==
    called = "apply_price_filter" =>
        /\ Range1(ret.high) \subseteq Range1(ret.low)
        /\ {b.ticker : b \in Range1(ret.high)}
               \subseteq {b.ticker : b \in Range1(ret.low)}

\* raising MIN_PRICE from 10 to 17 drops one of two tickers
C20_Witness ==
    /\ called = "apply_price_filter"
    /\ args.p1 = 10
    /\ args.p2 = 17
    /\ Len(ret.low) = 2
    /\ Len(ret.high) = 1

(***************************************************************************)
(* Properties of fetch_with_retry                                          *)
(***************************************************************************)
\* the exception classes the claims name as retried
Retryable(outcome) ==
    raised(outcome) /\ outcome.exc \in {"Timeout", "RequestException"}

\* x multiplied k times with itself, 1 for k = 0
RECURSIVE Times(_, _)

Times(x, k) ==
    IF k = 0 THEN Frac(1, 1)
    ELSE LET r == Times(x, k - 1) IN Frac(x[1] * r[1], x[2] * r[2])

C21_Calls ==
    LET calls == LogOf("fetch_func")
        n == Len(calls)
    IN  /\ pc \in {"retry", "returned"}
        /\ n <= args.max_retries
        /\ \A i \in 1..(n - 1) : Retryable(calls[i].value)
        /\ pc = "returned" =>
               /\ (n > 0 /\ ~raised(calls[n].value)) =>
                      /\ ret = calls[n].value.value
                      /\ log[Len(log)] = calls[n]
               /\ (n > 0 /\ raised(calls[n].value)) => ret = None
               /\ (\A i \in 1..n : Retryable(calls[i].value)) =>
                      /\ n = args.max_retries
                      /\ ret = None

\* C21: fetch_with_retry calls fetch_func at most max_retries times; every
\* call before the last one raised Timeout or RequestException; when a call
\* returns, its result is returned and nothing is called after it; when all
\* calls raised Timeout or RequestException, exactly max_retries calls were
\* made and None is returned; no exception leaves the function, and every
\* run reaches the return.
C21_Retry == []C21_Calls /\ <>(pc = "returned")

\* three Timeouts or RequestExceptions with max_retries = 3: None after
\* exactly three calls
C21_Witness ==
    /\ pc = "returned"
    /\ "max_retries" \in DOMAIN args
    /\ args.max_retries = 3
    /\ Len(LogOf("fetch_func")) = 3
    /\ \A i \in 1..3 : Retryable(LogOf("fetch_func")[i].value)
    /\ \E i \in 1..3 : LogOf("fetch_func")[i].value.exc = "RequestException"
    /\ ret = None

\* C22: a call of fetch_func that raises an exception that is neither
\* Timeout nor RequestException is the last thing fetch_with_retry does:
\* no sleep and no further call follow it, and None is returned, whatever
\* the number of attempts left.
C22_NoRetry ==
    \A i \in 1..Len(log) :
        (/\ log[i].op = "fetch_func"
         /\ raised(log[i].value)
         /\ ~Retryable(log[i].value)) =>
            /\ i = Len(log)
            /\ pc = "returned"
            /\ ret = None

\* ValueError in the first of three attempts
C22_Witness ==
    /\ pc = "returned"
    /\ "max_retries" \in DOMAIN args
    /\ args.max_retries = 3
    /\ Len(log) = 1
    /\ log[1].op = "fetch_func"
    /\ log[1].attempt = 0
    /\ raised(log[1].value)
    /\ log[1].value.exc = "ValueError"

\* C23: a sleep follows the failed attempt k directly, only for
\* k < max_retries - 1, and lasts backoff_base^k; every attempt after the
\* first is preceded by the sleep of the attempt before it; nothing follows
\* an attempt that returned or the failed attempt max_retries - 1.  With
\* base 2 the sleeps after attempts 0 and 1 last 1 and 2.
C23_Backoff ==
    \A i \in 1..Len(log) :
        /\ log[i].op = "sleep" =>
               /\ i > 1
               /\ log[i - 1].op = "fetch_func"
               /\ log[i - 1].attempt = log[i].attempt
               /\ Retryable(log[i - 1].value)
               /\ log[i].attempt < args.max_retries - 1
               /\ FracEq(log[i].value,
                         Times(args.backoff_base, log[i].attempt))
               /\ (args.backoff_base = Frac(2, 1) /\ log[i].attempt = 0) =>
                      FracEq(log[i].value, Int2Frac(1))
               /\ (args.backoff_base = Frac(2, 1) /\ log[i].attempt = 1) =>
                      FracEq(log[i].value, Int2Frac(2))
        /\ log[i].op = "fetch_func" =>
               /\ log[i].attempt > 0 =>
                      /\ i > 1
                      /\ log[i - 1].op = "sleep"
                      /\ log[i - 1].attempt = log[i].attempt - 1
               /\ (/\ Retryable(log[i].value)
                   /\ log[i].attempt < args.max_retries - 1) =>
                      /\ i < Len(log)
                      /\ log[i + 1].op = "sleep"
               /\ (\/ ~raised(log[i].value)
                   \/ log[i].attempt = args.max_retries - 1) =>
                      i = Len(log)

\* two Timeouts, then success, with base 2.0: sleeps of 1 and 2
C23_Witness ==
    /\ pc = "returned"
    /\ "backoff_base" \in DOMAIN args
    /\ args.backoff_base = Frac(2, 1)
    /\ Len(log) = 5
    /\ log[1].value = Timeout
    /\ log[3].value = Timeout
    /\ log[2] = Attempted("sleep", 0, Frac(1, 1))
    /\ log[4] = Attempted("sleep", 1, Frac(2, 1))
    /\ log[5].value = returned(Str("success"))
    /\ ret = Str("success")

(***************************************************************************)
(* Properties of safe_process_ticker                                       *)
(***************************************************************************)
\* the results the claim names as empty: None, a DataFrame without columns
\* or without rows, {}
StatedEmpty(result) ==
    \/ result = None
    \/ result.tag = "frame" /\ result.items = <<>>
    \/ result.tag = "frame" /\ result.items # <<>>
           /\ \A c \in DOMAIN result.items : result.items[c] = <<>>
    \/ result.tag = "dict" /\ result.items = <<>>

\* C24: safe_process_ticker calls process_func exactly once, with the
\* ticker; it returns None when process_func raised or returned None, an
\* empty DataFrame or an empty dict, and process_func's result otherwise;
\* no exception leaves it.
C24_SafeProcess ==
    called = "safe_process_ticker" =>
        /\ Len(log) = 1
        /\ log[1].op = "process_func"
        /\ log[1].ticker = args.ticker
        /\ "tag" \in DOMAIN ret
        /\ ~raised(ret)
        /\ IF raised(args.process_func) THEN ret = None
           ELSE IF StatedEmpty(args.process_func.value) THEN ret = None
           ELSE ret = args.process_func.value

\* {} is answered by None, {"key": None} is handed back
C24_Witness ==
    /\ called = "safe_process_ticker"
    /\ \/ args.process_func = returned(Dict(<<>>)) /\ ret = None
       \/ /\ args.process_func = returned(Dict([k \in {"key"} |-> None]))
          /\ ret = Dict([k \in {"key"} |-> None])

(***************************************************************************)
(* Properties of load_ticker_list                                          *)
(***************************************************************************)
\* the valid tickers as the claim states them: non-empty, ASCII, 1 to 10
\* characters, only alphanumerics, '-' or '.'
StatedValid(t) ==
    /\ t # <<>>
    /\ Len(t) \in 1..10
    /\ \A i \in 1..Len(t) :
           \/ t[i] \in {"-", "."}
           \/ t[i] \in AsciiUpper \cup DOMAIN Uppercase \cup {"1"}

\* the stripped and upper-cased form of a str entry
Cleaned(entry) == upper(strip(entry.chars))

\* the position of the first entry whose cleaned form is t
FirstOccurrence(items, t) ==
    CHOOSE i \in 1..Len(items) :
        /\ items[i].tag = "str"
        /\ Cleaned(items[i]) = t
        /\ \A j \in 1..(i - 1) :
               items[j].tag = "str" => Cleaned(items[j]) # t

\* C25: for a Python list, load_ticker_list returns without raising a list
\* of str without duplicates; its members are exactly the stripped and
\* upper-cased forms of the str entries whose form is a valid ticker, in the
\* order in which each first occurs in the input.
C25_TickerList ==
    (called = "load_ticker_list" /\ args.source.tag = "list") =>
        LET items == args.source.items
            out == IF ret.tag = "list" THEN ret.items ELSE <<>>
        IN  /\ ret.tag = "list"
            /\ \A i, j \in 1..Len(out) : out[i] = out[j] => i = j
            /\ \A i \in 1..Len(out) :
                   /\ out[i].tag = "str"
                   /\ StatedValid(out[i].chars)
                   /\ \E k \in 1..Len(items) :
                          /\ items[k].tag = "str"
                          /\ Cleaned(items[k]) = out[i].chars
            /\ \A k \in 1..Len(items) :
                   (items[k].tag = "str" /\ StatedValid(Cleaned(items[k])))
                       => \E i \in 1..Len(out) :
                              out[i].chars = Cleaned(items[k])
            /\ \A i, j \in 1..Len(out) :
                   i < j => FirstOccurrence(items, out[i].chars)
                                < FirstOccurrence(items, out[j].chars)

\* ['aapl', <3>, ' aapl<tab>'] gives ['AAPL']; ['BRK.B', <11 letters>,
\* 'AAPL'] gives ['BRK.B', 'AAPL']
C25_Witness ==
    /\ called = "load_ticker_list"
    /\ \/ /\ args.source =
                 List(<<Text(<<"a", "a", "p", "l">>), Num(3),
                        Text(<<" ", "a", "a", "p", "l", "\t">>)>>)
          /\ ret = List(<<Text(<<"A", "A", "P", "L">>)>>)
       \/ /\ args.source =
                 List(<<Text(<<"B", "R", "K", ".", "B">>),
                        Text(<<"A", "B", "C", "D", "E", "F", "G", "H", "I",
                               "J", "K">>),
                        Text(<<"A", "A", "P", "L">>)>>)
          /\ ret = List(<<Text(<<"B", "R", "K", ".", "B">>),
                          Text(<<"A", "A", "P", "L">>)>>)

\* C30 as stated: a CSV file whose rows have the first cells c1..cn gives
\* the same ticker list as the Python list [c1, ..., cn].
C30_RowsAlike ==
    (/\ called = "load_ticker_list"
     /\ args.source.tag = "csv"
     /\ args.source.file = "read"
     /\ \A i \in 1..Len(args.source.rows) : Len(args.source.rows[i]) > 0) =>
        ret = load_ticker_list(
                  List([i \in 1..Len(args.source.rows) |->
                           Text(args.source.rows[i][1])]))

(***************************************************************************)
(* Properties of post_stock_alert                                          *)
(***************************************************************************)
\* C26: the chart is uploaded before the message is posted, and the message
\* is posted only after an upload that succeeded: while chat_postMessage is
\* awaited the upload has returned and nothing is posted yet; when the
\* upload fails no message is posted and the upload's exception reaches the
\* caller; when the post fails its exception reaches the caller; the call
\* returns normally only when both succeeded.
C26_UploadThenPost ==
    LET uploads == LogOf("files_upload_v2")
        posts == LogOf("chat_postMessage")
    IN  /\ Len(uploads) <= 1
        /\ Len(posts) <= 1
        /\ Len(posts) = 1 =>
               /\ Len(log) = 2
               /\ log[1].op = "files_upload_v2"
               /\ ~raised(log[1].value)
               /\ log[2].op = "chat_postMessage"
        /\ pc = "chat_postMessage" =>
               /\ called = "none"
               /\ log = <<Event("files_upload_v2", args.ticker,
                                args.files_upload_v2)>>
               /\ ~raised(args.files_upload_v2)
               /\ ~raised(args.format_message)
        /\ called = "none" => Len(posts) = 0
        /\ called = "post_stock_alert" =>
               /\ pc = "idle"
               /\ (Len(uploads) = 1 /\ raised(args.files_upload_v2)) =>
                      /\ Len(posts) = 0
                      /\ ret = args.files_upload_v2
               /\ (Len(posts) = 1 /\ raised(args.chat_postMessage)) =>
                      ret = args.chat_postMessage
               /\ ~raised(args.format_message) => Len(uploads) = 1
               /\ ~raised(ret) =>
                      /\ ret = returned(None)
                      /\ Len(posts) = 1
                      /\ ~raised(args.files_upload_v2)
                      /\ ~raised(args.chat_postMessage)

\* the upload fails with an error other than invalid_auth and
\* channel_not_found: nothing is posted and the error is raised
C26_Witness ==
    /\ called = "post_stock_alert"
    /\ args.files_upload_v2 = SlackApiError("ratelimited")
    /\ ~raised(args.format_message)
    /\ ~raised(args.chat_postMessage)
    /\ Len(log) = 1
    /\ log[1].op = "files_upload_v2"
    /\ ret = SlackApiError("ratelimited")

(***************************************************************************)
(* The counters of the fundamental loop, the empty benchmark, and the      *)
(* prices of the exit plans main() builds                                  *)
(***************************************************************************)
\* the passes of the fundamental loop that did not end in qualification
SkippedPasses ==
    SelectSeq(LogOf("fetch_financial_data"),
              LAMBDA e : e.value # "qualified")

\* C27: after every pass of the fundamental loop processed_count =
\* len(qualified_stocks) + skipped_count (inside a pass, between the count
\* and the verdict, processed_count is one more); every pass took one
\* candidate and counted it once, as qualified or, when its data was
\* unavailable, its evaluation raised or it failed the criteria, as skipped;
\* the loop ends only when every candidate has been taken.
C27_Counters ==
    /\ pc # "evaluate" =>
           processed_count = Len(qualified_stocks) + skipped_count
    /\ pc = "evaluate" =>
           processed_count = Len(qualified_stocks) + skipped_count + 1
    /\ processed_count <= Len(candidates)
    /\ Len(LogOf("fetch_financial_data")) = PassesDone
    /\ skipped_count = Len(SkippedPasses)
    /\ (pc \in {"notify", "done", "exit 0"} \/ InPass) =>
           processed_count = Len(candidates)

\* two candidates: the evaluation of one raised, the other qualified
C27_Witness ==
    /\ pc = "fundamental"
    /\ processed_count = 2
    /\ skipped_count = 1
    /\ Len(qualified_stocks) = 1
    /\ LogOf("fetch_financial_data")[1].value = "raised"
    /\ LogOf("fetch_financial_data")[2].value = "qualified"

\* the tickers left after the price, volume, trend and near-high stages
StageFour ==
    apply_near_high_filter(
        apply_trend_filter(apply_volume_filter(apply_price_filter(data))))

\* C28: with an empty benchmark apply_rs_filter returns its input as it is,
\* and filter_all returns the tickers that survive stages 1 to 4, all of
\* them; the result is empty only when no ticker survives those stages, and
\* nothing is raised.
C28_EmptyBenchmark ==
    empty(spy_data) =>
        /\ called = "apply_rs_filter" => ret = data
        /\ called = "filter_all" =>
               /\ ret = unique_tickers(StageFour)
               /\ ret = <<>> <=> empty(StageFour)
               /\ \A t \in InputTickers :
                      (/\ price_ok(loc_ticker(data, t), MIN_PRICE)
                       /\ volume_ok(loc_ticker(data, t))
                       /\ trend_ok(loc_ticker(data, t))
                       /\ near_high_ok(loc_ticker(data, t)))
                          => \E i \in 1..Len(ret) : ret[i] = t

\* without a benchmark filter_all keeps a ticker that fell over the year
C28_Witness ==
    /\ called = "filter_all"
    /\ empty(spy_data)
    /\ \E i \in 1..Len(ret) :
           LET c == loc_ticker(data, ret[i]).Close
           IN  LastOf(c) < c[1]

\* C29: every notification pass of main builds its ExitStrategy: the ticker's
\* latest close is >= MIN_PRICE > 0, and the plan has
\* 0 < stop_loss_price < latest close < profit_target_price; the constructor
\* never raises.
C29_ExitPrices ==
    /\ MIN_PRICE > 0
    /\ Len(LogOf("ExitStrategy"))
           = notification_success_count + notification_failed_count
                 + (IF InPass THEN 1 ELSE 0)
    /\ InPass => exit_strategy = LogOf("ExitStrategy")[NotifyIndex].value
    /\ \A e \in Range1(LogOf("ExitStrategy")) :
           LET close == iloc_last(loc_ticker(data, e.ticker).Close)
               current_price == float_of(Int2Frac(close))
           IN  /\ close >= MIN_PRICE
               /\ ~raised(e.value)
               /\ "stop_loss_price" \in DOMAIN e.value
               /\ fcmp(e.value.stop_loss_price, FloatZero(1)) > 0
               /\ fcmp(current_price, e.value.stop_loss_price) > 0
               /\ fcmp(e.value.profit_target_price, current_price) > 0

\* a ticker whose latest close is exactly MIN_PRICE: the stop is the
\* double just below 9.3 (9.299999999999999), the target 12.0
C29_Witness ==
    \E e \in Range1(LogOf("ExitStrategy")) :
        /\ iloc_last(loc_ticker(data, e.ticker).Close) = MIN_PRICE
        /\ FloatClose(e.value.stop_loss_price, float_of(Frac(93, 10)))
        /\ e.value.stop_loss_price # float_of(Frac(93, 10))
        /\ e.value.profit_target_price = float_of(Int2Frac(12))

====
